---- MODULE Spec2Model ----
(***************************************************************************)
(* Model of the JARVIS service registry (src/dns_server/dns_server.py):    *)
(* the in-memory registry DNSServer.services, Register, Heartbeat,         *)
(* GetService, the health-check loop with its threat assessment, the       *)
(* power-management loop and the activation of defense protocols.          *)
(*                                                                         *)
(* Time is a discrete clock in seconds.  Power levels are exact rationals  *)
(* [n, d] in lowest terms; scores are compared exactly.                    *)
(***************************************************************************)
EXTENDS Integers, Sequences, FiniteSets, TLC

(* ---------------------------- bounds ----------------------------------- *)
\* the clock stops advancing at MaxTime seconds
MaxTime == 50
\* granularity of the clock, in seconds
TimeStep == 10
\* Register adds a new instance only while fewer than MaxInstances are stored
MaxInstances == 2
\* the fleet specification registers llm instances 1..MaxFleet beside one db
MaxFleet == 4
\* assess_threat flags an instance only while fewer than MaxThreats threats
\* are on the active-threat list
MaxThreats == 2
\* the Service Monitor's clock stops advancing at MaxClock minutes
MaxClock == 45
\* granularity of the Service Monitor's clock, in minutes
ClockStep == 15
\* the cleanup specification sends a status update to an instance only while
\* its history holds fewer than MaxEntries entries
MaxEntries == 1
\* an agent sends a registry message only while fewer than MaxSent were sent
MaxSent == 4
\* the wall clock of the lookup caches advances by AgeStep seconds while it
\* is at most MaxAge seconds into a day, and by a whole day MaxDays times
AgeStep == 150
MaxAge == 450
MaxDays == 1

(* ----------------------- program constants ----------------------------- *)
\* ServiceInstance.last_heartbeat default: time.time() evaluated once, when
\* the class body is executed (module import), i.e. the initial clock value
ClassDefTime == 0
HealthyThreshold == 30
MinPower == 20
TotalPower == 100
HealthCheckInterval == 10
PowerInterval == 5
\* 1 / 0.0001, the epsilon of the score's recency term
EpsInv == 10000
\* api.py: deque(maxlen=100) of an instance's status history
HistoryCap == 100
\* api.py: minutes without a ping after which /health marks an instance dead
DeadAfter == 5
\* api.py: minutes without a ping after which /cleanup removes an instance
CleanupAfter == 30
\* server_template.py: seconds the client heartbeat loop sleeps
HeartbeatPeriod == 10
\* server_template.py: seconds the client self-health loop sleeps
SelfCheckPeriod == 60

CriticalServices == {"main", "llm", "functional"}
ThreatLevels == {"low", "moderate", "high", "critical"}

(* ------------------------------ inputs --------------------------------- *)
Types == {"llm", "db"}
InstanceIds == {1, 2}
Ports == {9101}
\* the empty dict (also stands for None where the code tests truthiness)
EmptyDict == [k \in {} |-> 0]
Metadatas == {EmptyDict, [region |-> "a"]}
Requirements == {EmptyDict, [region |-> "a"], [region |-> "b"]}
MetricInputs == {EmptyDict, [cpu |-> 50]}
\* the host a registration body names: none, or the address of another machine
Hosts == {"", "10.0.0.5"}

(* ------------------------ rational arithmetic -------------------------- *)
RECURSIVE GCD(_, _)
GCD(a, b) == IF b = 0 THEN a ELSE GCD(b, a % b)

Rat(n, d) == LET g == GCD(n, d) IN [n |-> n \div g, d |-> d \div g]

RatMul(r, n, d) == Rat(r.n * n, r.d * d)

\* r > k for an integer k
RatGT(r, k) == r.n > k * r.d

\* r < k for an integer k
RatLT(r, k) == r.n < k * r.d

RatMin(r, k) == IF RatGT(r, k) THEN Rat(k, 1) ELSE r

RatAdd(r, s) == Rat(r.n * s.d + s.n * r.d, r.d * s.d)

(* ------------------------------ state ---------------------------------- *)
VARIABLES
    now,                \* time.time(), seconds since the module was imported
    keys,               \* keys of DNSServer.services in insertion order
    services,           \* DNSServer.services: type -> list of ServiceInstance
    power_distribution, \* PowerManagement.power_distribution
    active_threats,     \* NetworkDefense.active_threats
    defense_protocols,  \* NetworkDefense.defense_protocols
    status,             \* DNSServer.status
    healthDue,          \* wake-up time of health_check_loop
    powerDue,           \* wake-up time of power_management_loop
    resp                \* the last operation and what it returned

\* the Service Monitor (api.py), a process of its own
VARIABLES
    clock,              \* datetime.now() of the monitor, minutes since its start
    instances,          \* api.py instances: server -> instance_id -> InstanceStatus
    history             \* api.py history: server -> instance_id -> deque

\* the state of the registry (dns_server.py) apart from resp
registryVars == <<now, keys, services, power_distribution, active_threats,
                  defense_protocols, status, healthDue, powerDue>>

monitorVars == <<clock, instances, history>>

\* a client agent (server_template.py: BaseServer with its DNSClient)
VARIABLES
    startup,            \* BaseServer startup: "pending", "running" or "crashed"
    service_config,     \* DNSClient.service_config: "None" or "set"
    registered,         \* the registry has answered 200 to a registration
    client_busy,        \* DNSClient.busy
    heartbeat_task,     \* DNSClient.heartbeat_task and where it stands
    health_check_task,  \* DNSClient.health_check_task and where it stands
    closing,            \* where DNSClient.close stands
    sent                \* the registry messages the agent has sent, in order

agentVars == <<startup, service_config, registered, client_busy, heartbeat_task,
               health_check_task, closing, sent>>

\* the orchestrator (main_server/services/orchestrator.py)
VARIABLES
    orch                \* ServiceOrchestrator: its tasks, close and messages

orchVars == <<orch>>

\* the health_check_loop of the registry, followed through its awaits
VARIABLES
    tick                \* where an iteration of health_check_loop stands

tickVars == <<tick>>

\* the server manager (start_servers.py) and the DNSClient it shares among
\* the servers it starts
VARIABLES
    manager             \* the manager's DNSClient: config, tasks, registrations

managerVars == <<manager>>

\* the client-side lookup caches and the wall clock their ages are taken from
VARIABLES
    wall,               \* datetime.now(), in whole seconds
    service_cache,      \* ServiceOrchestrator.service_cache
    cache               \* the functional server's DNSClient.cache

cacheVars == <<wall, service_cache, cache>>

vars == <<now, keys, services, power_distribution, active_threats,
          defense_protocols, status, healthDue, powerDue, resp, monitorVars,
          agentVars, orchVars, tickVars, managerVars, cacheVars>>

DefaultMetrics == [cpu |-> 0, memory |-> 0, network |-> 0, requests_per_second |-> 0]

\* ServiceInstance(server=..., instance_id=..., port=..., metadata=...):
\* every other field takes its class default
ServiceInstance(t, id, port, meta) ==
    [server |-> t, instance_id |-> id, host |-> "localhost", port |-> port,
     last_heartbeat |-> ClassDefTime, status |-> "healthy", metadata |-> meta,
     performance_metrics |-> DefaultMetrics, security_status |-> "secure",
     power_level |-> Rat(100, 1)]

KeySet == {keys[i] : i \in 1..Len(keys)}

\* resp: op names the operation; stype, id, arg (metadata, metrics or
\* requirements) and busy are its arguments; code is the HTTP status; idx is
\* the list index of the instance it stored, updated or returned; replaced
\* tells a Register that overwrote an entry; host is the host a Register's
\* body named ("" when it named none); probes is the set of positions
\* whose recovery probe answered 200; threats maps every position of a health
\* tick to the level assess_threat drew for it; protocol is the name given to
\* the activation route
NoResp == [op |-> "init", stype |-> "", id |-> 0, arg |-> EmptyDict, busy |-> FALSE,
           code |-> 0, idx |-> 0, replaced |-> FALSE, host |-> "", probes |-> {},
           threats |-> EmptyDict, protocol |-> ""]

\* health_check_loop asleep between two iterations.  While it awaits a
\* probe: current_time is the time read when the iteration began, size the
\* number of keys of services at that time, ki and i the place of the probed
\* instance (keys[ki], list index i), stored tells whether the instance object
\* the loop holds is still the one in the list, started and examined are the
\* instances stored when the iteration began and those it has checked
IdleTick == [pc |-> "idle", current_time |-> 0, size |-> 0, ki |-> 0, i |-> 0,
             stored |-> TRUE, started |-> {}, examined |-> {}]

\* ServerManager.__init__: self.dns_client = DNSClient(); nothing registered,
\* no registration in flight, no task created, no heartbeat sent
NewManager == [service_config |-> "None", calls |-> {}, registered |-> {},
               heartbeat_task |-> "None", health_check_task |-> "None",
               heartbeat_tasks |-> 0, health_check_tasks |-> 0,
               beats |-> [t \in Types |-> 0]]

Init ==
    /\ now = 0
    /\ keys = <<>>
    /\ services = [t \in Types |-> <<>>]
    /\ power_distribution = EmptyDict
    /\ active_threats = <<>>
    /\ defense_protocols = [lockdown |-> FALSE, enhanced_monitoring |-> FALSE,
                            auto_recovery |-> TRUE]
    /\ status = [operational_status |-> "fully_operational",
                 security_level |-> "standard",
                 power_status |-> "optimal",
                 active_threats |-> 0]
    /\ healthDue = 0
    /\ powerDue = 0
    /\ resp = NoResp
    /\ clock = 0
    /\ instances = EmptyDict
    /\ history = EmptyDict
    /\ startup = "pending"
    /\ service_config = "None"
    /\ registered = FALSE
    /\ client_busy = FALSE
    /\ heartbeat_task = [pc |-> "none", delay |-> 0]
    /\ health_check_task = [pc |-> "none", delay |-> 0, fails |-> 0]
    /\ closing = "idle"
    /\ sent = <<>>
    /\ orch = [register |-> "pending", heartbeat |-> [pc |-> "sleep", delay |-> 0],
               closing |-> "idle", sent |-> <<>>]
    /\ tick = IdleTick
    /\ manager = NewManager
    /\ wall = 0
    /\ service_cache = EmptyDict
    /\ cache = EmptyDict

(* --------------------------- PowerManagement --------------------------- *)
RECURSIVE SumLen(_, _)
SumLen(svc, ts) ==
    IF ts = {} THEN 0
    ELSE LET t == CHOOSE x \in ts : TRUE IN Len(svc[t]) + SumLen(svc, ts \ {t})

TotalInstances(svc) == SumLen(svc, Types)

PowerPerInstance(svc) ==
    IF TotalInstances(svc) > 0 THEN Rat(TotalPower, TotalInstances(svc)) ELSE Rat(0, 1)

\* an allocation without the multiplier of the critical services
InstancePowerFlat(svc, t) == PowerPerInstance(svc)

\* multiplier 1.5 for critical services, 1.0 otherwise
InstancePower(svc, t) ==
    IF t \in CriticalServices THEN RatMul(PowerPerInstance(svc), 3, 2)
    ELSE PowerPerInstance(svc)

\* allocate_power: the services after every instance's power_level is rewritten
allocate_power(svc) ==
    [t \in Types |->
        [i \in 1..Len(svc[t]) |-> [svc[t][i] EXCEPT !.power_level = InstancePower(svc, t)]]]

\* a distribution that records the share of one instance for each type
allocate_power_distribution_per_instance(svc, ks) ==
    [t \in ks |-> InstancePower(svc, t)]

\* allocate_power: the power_distribution it leaves
allocate_power_distribution(svc, ks) ==
    [t \in ks |-> RatMul(InstancePower(svc, t), Len(svc[t]), 1)]

(* ------------------------------ Register ------------------------------- *)
\* indices of the stored instances of type t with instance_id = id
Matches(svc, t, id) == {i \in 1..Len(svc[t]) : svc[t][i].instance_id = id}

FirstMatch(svc, t, id) ==
    CHOOSE i \in Matches(svc, t, id) : \A j \in Matches(svc, t, id) : i <= j

\* The route POST /register with a body that names a host ("" when it names
\* none).  The body is parsed as a ServiceRegistration, which has the fields
\* server, instance_id, port and metadata: any other key of the body is
\* dropped, and the instance takes the class default of host.  Then
\* DNSServer.register_service: an entry with the same id is overwritten in
\* place, otherwise the instance is appended and power is reallocated
register_service_route(t, id, host, port, meta) ==
    LET instance == ServiceInstance(t, id, port, meta)
        ks == IF t \in KeySet THEN keys ELSE Append(keys, t)
    IN
    /\ keys' = ks
    /\ IF Matches(services, t, id) # {}
       THEN /\ services' = [services EXCEPT ![t][FirstMatch(services, t, id)] = instance]
            /\ UNCHANGED power_distribution
            /\ resp' = [NoResp EXCEPT !.op = "register", !.host = host, !.stype = t, !.id = id,
                                      !.arg = meta, !.code = 200, !.replaced = TRUE,
                                      !.idx = FirstMatch(services, t, id)]
       ELSE LET added == [services EXCEPT ![t] = Append(@, instance)] IN
            /\ services' = allocate_power(added)
            /\ power_distribution' = allocate_power_distribution(added, {ks[i] : i \in 1..Len(ks)})
            /\ resp' = [NoResp EXCEPT !.op = "register", !.host = host, !.stype = t, !.id = id,
                                      !.arg = meta, !.code = 200,
                                      !.idx = Len(added[t])]
    /\ tick' = IF /\ tick.pc = "probe"
                  /\ t = keys[tick.ki]
                  /\ Matches(services, t, id) # {}
                  /\ FirstMatch(services, t, id) = tick.i
               THEN [tick EXCEPT !.stored = FALSE]
               ELSE tick
    /\ UNCHANGED <<now, active_threats, defense_protocols, status, healthDue, powerDue>>
    /\ UNCHANGED <<monitorVars, agentVars, orchVars, managerVars, cacheVars>>

\* Register without the search for an existing entry: always appends
register_service_always_append(t, id, port, meta) ==
    LET instance == ServiceInstance(t, id, port, meta)
        ks == IF t \in KeySet THEN keys ELSE Append(keys, t)
        added == [services EXCEPT ![t] = Append(@, instance)]
    IN
    /\ keys' = ks
    /\ services' = allocate_power(added)
    /\ power_distribution' = allocate_power_distribution(added, {ks[i] : i \in 1..Len(ks)})
    /\ resp' = [NoResp EXCEPT !.op = "register", !.stype = t, !.id = id,
                              !.arg = meta, !.code = 200, !.idx = Len(added[t])]
    /\ UNCHANGED <<now, active_threats, defense_protocols, status, healthDue, powerDue>>
    /\ UNCHANGED <<monitorVars, agentVars, orchVars, tickVars, managerVars, cacheVars>>

\* Register with a body that names no host
register_service(t, id, port, meta) == register_service_route(t, id, "", port, meta)

(* ------------------------------ Heartbeat ------------------------------ *)
\* dict.update: keys of upd are overwritten or added, the others are kept
DictUpdate(d, upd) ==
    [k \in DOMAIN d \cup DOMAIN upd |-> IF k \in DOMAIN upd THEN upd[k] ELSE d[k]]

\* update_heartbeat that assigns the reported metrics instead of merging them
BeatReplaceMetrics(inst, metrics) ==
    [inst EXCEPT !.last_heartbeat = now,
                 !.status = "healthy",
                 !.performance_metrics = IF metrics # EmptyDict THEN metrics ELSE @]

\* update_heartbeat that gives a recovered instance its full power back
BeatRestoresPower(inst, metrics) ==
    [inst EXCEPT !.last_heartbeat = now,
                 !.status = "healthy",
                 !.power_level = Rat(TotalPower, 1),
                 !.performance_metrics =
                     IF metrics # EmptyDict THEN DictUpdate(@, metrics) ELSE @]

\* the instance after update_heartbeat has found it
Beat(inst, metrics) ==
    [inst EXCEPT !.last_heartbeat = now,
                 !.status = "healthy",
                 !.performance_metrics =
                     IF metrics # EmptyDict THEN DictUpdate(@, metrics) ELSE @]

\* update_heartbeat that does not compare instance ids: the first instance of
\* the type takes the heartbeat
update_heartbeat_any_id(t, id, busy, metrics) ==
    /\ IF t \in KeySet /\ services[t] # <<>>
       THEN /\ services' = [services EXCEPT ![t][1] = Beat(@, metrics)]
            /\ resp' = [NoResp EXCEPT !.op = "heartbeat", !.stype = t, !.id = id,
                                      !.arg = metrics, !.busy = busy, !.code = 200,
                                      !.idx = 1]
       ELSE /\ UNCHANGED services
            /\ resp' = [NoResp EXCEPT !.op = "heartbeat", !.stype = t, !.id = id,
                                      !.arg = metrics, !.busy = busy, !.code = 404]
    /\ UNCHANGED <<now, keys, power_distribution, active_threats,
                   defense_protocols, status, healthDue, powerDue>>
    /\ UNCHANGED <<monitorVars, agentVars, orchVars, tickVars, managerVars, cacheVars>>

\* update_heartbeat and its route; the route has no busy parameter and
\* ServiceInstance no busy field, so a reported busy flag is dropped
update_heartbeat(t, id, busy, metrics) ==
    /\ IF t \in KeySet /\ Matches(services, t, id) # {}
       THEN /\ services' = [services EXCEPT ![t][FirstMatch(services, t, id)] =
                                                Beat(@, metrics)]
            /\ resp' = [NoResp EXCEPT !.op = "heartbeat", !.stype = t, !.id = id,
                                      !.arg = metrics, !.busy = busy, !.code = 200,
                                      !.idx = FirstMatch(services, t, id)]
       ELSE /\ UNCHANGED services
            /\ resp' = [NoResp EXCEPT !.op = "heartbeat", !.stype = t, !.id = id,
                                      !.arg = metrics, !.busy = busy, !.code = 404]
    /\ UNCHANGED <<now, keys, power_distribution, active_threats,
                   defense_protocols, status, healthDue, powerDue>>
    /\ UNCHANGED <<monitorVars, agentVars, orchVars, tickVars, managerVars, cacheVars>>

(* ------------------------------ GetService ----------------------------- *)
Age(inst) == now - inst.last_heartbeat

\* the filter without its minimum power level
IsCandidateAnyPower(inst) ==
    /\ inst.status = "healthy"
    /\ now - inst.last_heartbeat < HealthyThreshold

\* the filter of get_service
IsCandidate(inst) ==
    /\ inst.status = "healthy"
    /\ Age(inst) < HealthyThreshold
    /\ RatGT(inst.power_level, MinPower)

AllIdx(lst) == [i \in 1..Len(lst) |-> i]

\* the list comprehension of get_service's filter: the indices in idxs whose
\* instance is a candidate, in list order
RECURSIVE FilterHealthy(_, _)
FilterHealthy(lst, idxs) ==
    IF idxs = <<>> THEN <<>>
    ELSE IF IsCandidate(lst[Head(idxs)])
         THEN <<Head(idxs)>> \o FilterHealthy(lst, Tail(idxs))
         ELSE FilterHealthy(lst, Tail(idxs))

\* instance.metadata.get(key) == value for every required key
MetaMatches(inst, req) ==
    \A k \in DOMAIN req : k \in DOMAIN inst.metadata /\ inst.metadata[k] = req[k]

\* the list comprehension of the requirements filter
RECURSIVE FilterMatching(_, _, _)
FilterMatching(lst, idxs, req) ==
    IF idxs = <<>> THEN <<>>
    ELSE IF MetaMatches(lst[Head(idxs)], req)
         THEN <<Head(idxs)>> \o FilterMatching(lst, Tail(idxs), req)
         ELSE FilterMatching(lst, Tail(idxs), req)

\* sign of V = c2*B^2 + c1*B + c0 at B = EpsInv, evaluated without forming V
PolyPositive(c2, c1, c0) ==
    LET f0 == (0 - c0) \div EpsInv          \* V > 0  <=>  c2*B + c1 > f0
        f1 == (f0 - c1) \div EpsInv         \*        <=>  c2 > f1
    IN c2 > f1

\* score(x) > score(y), score = power_level*0.7 + (1/(age + 0.0001))*0.3:
\* 10*(score(x) - score(y)) has the sign of c2*B^2 + c1*B + c0 with
\* B = 1/0.0001, E = x.power*y.d - y.power*x.d
ScoreGT(x, y) ==
    LET E  == x.power_level.n * y.power_level.d - y.power_level.n * x.power_level.d
        dd == x.power_level.d * y.power_level.d
        ax == Age(x)
        ay == Age(y)
    IN PolyPositive(7 * E * ax * ay + 3 * dd * (ay - ax), 7 * E * (ax + ay), 7 * E)

\* max that keeps the last element with the greatest key
RECURSIVE MaxIdxLast(_, _, _)
MaxIdxLast(lst, idxs, best) ==
    IF idxs = <<>> THEN best
    ELSE IF ~ScoreGT(lst[best], lst[Head(idxs)])
         THEN MaxIdxLast(lst, Tail(idxs), Head(idxs))
         ELSE MaxIdxLast(lst, Tail(idxs), best)

\* Python's max(list, key=...): the first element with the greatest key
RECURSIVE MaxIdx(_, _, _)
MaxIdx(lst, idxs, best) ==
    IF idxs = <<>> THEN best
    ELSE IF ScoreGT(lst[Head(idxs)], lst[best])
         THEN MaxIdx(lst, Tail(idxs), Head(idxs))
         ELSE MaxIdx(lst, Tail(idxs), best)

HealthyInstances(t) == FilterHealthy(services[t], AllIdx(services[t]))

MatchingInstances(t, req) == FilterMatching(services[t], HealthyInstances(t), req)

\* get_service that answers 404 whenever it has nothing to return
get_service_result_only_404(t, req) ==
    IF t \notin KeySet \/ services[t] = <<>> \/ HealthyInstances(t) = <<>>
    THEN [code |-> 404, idx |-> 0]
    ELSE LET cands == IF req # EmptyDict /\ MatchingInstances(t, req) # <<>>
                      THEN MatchingInstances(t, req)
                      ELSE HealthyInstances(t)
         IN [code |-> 200, idx |-> MaxIdx(services[t], Tail(cands), Head(cands))]

\* get_service without the fallback: requirements nothing matches fail
get_service_result_strict(t, req) ==
    IF t \notin KeySet \/ services[t] = <<>> THEN [code |-> 404, idx |-> 0]
    ELSE IF HealthyInstances(t) = <<>> THEN [code |-> 503, idx |-> 0]
    ELSE LET cands == IF req # EmptyDict
                      THEN MatchingInstances(t, req)
                      ELSE HealthyInstances(t)
         IN IF cands = <<>> THEN [code |-> 503, idx |-> 0]
            ELSE [code |-> 200, idx |-> MaxIdx(services[t], Tail(cands), Head(cands))]

\* get_service: the HTTP status and the index of the returned instance in
\* services[t] (0 when it raises)
get_service_result(t, req) ==
    IF t \notin KeySet \/ services[t] = <<>> THEN [code |-> 404, idx |-> 0]
    ELSE IF HealthyInstances(t) = <<>> THEN [code |-> 503, idx |-> 0]
    ELSE LET cands == IF req # EmptyDict /\ MatchingInstances(t, req) # <<>>
                      THEN MatchingInstances(t, req)
                      ELSE HealthyInstances(t)
         IN [code |-> 200, idx |-> MaxIdx(services[t], Tail(cands), Head(cands))]

get_service(t, req) ==
    /\ resp' = [NoResp EXCEPT !.op = "get", !.stype = t, !.arg = req,
                              !.code = get_service_result(t, req).code,
                              !.idx = get_service_result(t, req).idx]
    /\ UNCHANGED <<now, keys, services, power_distribution, active_threats,
                   defense_protocols, status, healthDue, powerDue>>
    /\ UNCHANGED <<monitorVars, agentVars, orchVars, tickVars, managerVars, cacheVars>>

(* ---------------------------- health_check_loop ------------------------ *)
\* positions <<type, index>> of the stored instances, in the loop's iteration
\* order: the dict's insertion order, then list order
RECURSIVE PositionsFrom(_, _)
PositionsFrom(ks, svc) ==
    IF ks = <<>> THEN <<>>
    ELSE [i \in 1..Len(svc[Head(ks)]) |-> <<Head(ks), i>>] \o PositionsFrom(Tail(ks), svc)

Positions == PositionsFrom(keys, services)

PositionSet == {Positions[i] : i \in 1..Len(Positions)}

\* a heartbeat check that reduces the power only on the step from healthy
CheckHeartbeatOnce(inst) ==
    IF now - inst.last_heartbeat > HealthyThreshold
    THEN [inst EXCEPT !.status = "unhealthy",
                      !.power_level = IF inst.status = "healthy" THEN RatMul(@, 4, 5) ELSE @]
    ELSE inst

\* the heartbeat check of one instance
CheckHeartbeat(inst) ==
    IF now - inst.last_heartbeat > HealthyThreshold
    THEN [inst EXCEPT !.status = "unhealthy", !.power_level = RatMul(@, 4, 5)]
    ELSE inst

\* a security check in which a threat of any level compromises the instance
SecurityCheckAnyLevel(inst, level) ==
    IF level \in ThreatLevels
    THEN [inst EXCEPT !.security_status = "compromised"]
    ELSE inst

\* the security check; level is "none" when assess_threat returns None
SecurityCheck(inst, level) ==
    IF level \in {"high", "critical"}
    THEN [inst EXCEPT !.security_status = "compromised"]
    ELSE inst

\* a recovery that does not cap the boosted power
RecoverUncapped(inst, ok) ==
    IF inst.status = "unhealthy" /\ ok
    THEN [inst EXCEPT !.status = "healthy",
                      !.last_heartbeat = now,
                      !.power_level = RatMul(@, 6, 5)]
    ELSE inst

\* a recovery that gives up an instance whose probe fails
RecoverOrDead(inst, ok) ==
    IF inst.status = "unhealthy"
    THEN IF ok
         THEN [inst EXCEPT !.status = "healthy",
                           !.last_heartbeat = now,
                           !.power_level = RatMin(RatMul(@, 6, 5), 100)]
         ELSE [inst EXCEPT !.status = "dead"]
    ELSE inst

\* a recovery that also declares the instance secure again
RecoverSecures(inst, ok) ==
    IF inst.status = "unhealthy" /\ ok
    THEN [inst EXCEPT !.status = "healthy",
                      !.last_heartbeat = now,
                      !.power_level = RatMin(RatMul(@, 6, 5), 100),
                      !.security_status = "secure"]
    ELSE inst

\* the recovery probe; ok is TRUE when GET /health answers 200 in time
Recover(inst, ok) ==
    IF inst.status = "unhealthy" /\ ok
    THEN [inst EXCEPT !.status = "healthy",
                      !.last_heartbeat = now,
                      !.power_level = RatMin(RatMul(@, 6, 5), 100)]
    ELSE inst

\* the loop body for one instance
MonitorInstance(inst, level, ok) ==
    Recover(SecurityCheck(CheckHeartbeat(inst), level), ok)

\* the SecurityThreat assess_threat appends
SecurityThreat(level, inst) ==
    [threat_level |-> level, description |-> "Anomalous behavior detected",
     timestamp |-> now, affected_services |-> <<inst.server>>]

\* the threats one tick appends, in iteration order
RECURSIVE DetectedThreats(_, _)
DetectedThreats(ps, thr) ==
    IF ps = <<>> THEN <<>>
    ELSE (IF thr[Head(ps)] # "none"
          THEN <<SecurityThreat(thr[Head(ps)], services[Head(ps)[1]][Head(ps)[2]])>>
          ELSE <<>>) \o DetectedThreats(Tail(ps), thr)

\* an assessor that puts new threats in front of the list
AppendThreatsFront(lst, detected) == detected \o lst

\* assess_threat's append to the active-threat list
AppendThreats(lst, detected) == lst \o detected

\* a status update that stays degraded once a threat has been seen
UpdateStatusSticky(st, threats_detected) ==
    [st EXCEPT
        !.operational_status =
            IF threats_detected > 0 \/ @ = "degraded" THEN "degraded" ELSE "fully_operational",
        !.security_level =
            IF threats_detected > 0 THEN "enhanced" ELSE "standard",
        !.active_threats = threats_detected]

\* the status update that ends a tick
UpdateStatus(st, threats_detected) ==
    [st EXCEPT
        !.operational_status =
            IF threats_detected > 0 THEN "degraded" ELSE "fully_operational",
        !.security_level =
            IF threats_detected > 0 THEN "enhanced" ELSE "standard",
        !.active_threats = threats_detected]

\* instances the tick probes: unhealthy once their heartbeat has been checked
Probed == {p \in PositionSet : CheckHeartbeat(services[p[1]][p[2]]).status = "unhealthy"}

\* one iteration of health_check_loop; thr maps each position to the level
\* assess_threat draws for it ("none" for no threat), probeOk is the set of
\* probed positions whose /health answers 200
health_check_loop(thr, probeOk) ==
    LET detected == DetectedThreats(Positions, thr)
        threats_detected == Len(detected)
    IN
    /\ now >= healthDue
    /\ services' = [t \in Types |->
                      [i \in 1..Len(services[t]) |->
                          MonitorInstance(services[t][i], thr[<<t, i>>], <<t, i>> \in probeOk)]]
    /\ active_threats' = AppendThreats(active_threats, detected)
    /\ status' = UpdateStatus(status, threats_detected)
    /\ healthDue' = now + HealthCheckInterval
    /\ resp' = [NoResp EXCEPT !.op = "health", !.probes = probeOk, !.threats = thr]
    /\ UNCHANGED <<now, keys, power_distribution, defense_protocols, powerDue>>
    /\ UNCHANGED <<monitorVars, agentVars, orchVars, tickVars, managerVars, cacheVars>>

\* the draw in which assess_threat flags nothing (random.random() >= 0.05)
NoThreat == [p \in PositionSet |-> "none"]

\* number of instances a draw flags
Flagged(thr) == Cardinality({p \in DOMAIN thr : thr[p] # "none"})

\* the draws of one tick: for every instance either no threat or a threat of
\* a level random.choice picks
ThreatDraws ==
    {thr \in [PositionSet -> ThreatLevels \cup {"none"}] :
        Len(active_threats) + Flagged(thr) <= MaxThreats}

(* ------------- health_check_loop, one await at a time ------------------ *)
\* <<type, instance_id>> of the stored instances
StoredIds(svc) ==
    UNION {{<<t, svc[t][i].instance_id>> : i \in 1..Len(svc[t])} : t \in Types}

\* the heartbeat check of one instance against the current_time of the tick
CheckHeartbeatAt(inst, current_time) ==
    IF current_time - inst.last_heartbeat > HealthyThreshold
    THEN [inst EXCEPT !.status = "unhealthy", !.power_level = RatMul(@, 4, 5)]
    ELSE inst

\* what the loop writes once the awaited probe is over: the status was
\* tested before the await and is not tested again
RecoverAt(inst, ok, current_time) ==
    IF ok
    THEN [inst EXCEPT !.status = "healthy",
                      !.last_heartbeat = current_time,
                      !.power_level = RatMin(RatMul(@, 6, 5), 100)]
    ELSE inst

\* The loop from the instance at list index i of the type keys[ki] up to its
\* next await or its end.  size is the number of keys the dict had when
\* items() was called: the dict iterator raises RuntimeError when it is
\* advanced after the dict has grown.  A list iterator just goes on to the
\* elements its list has now.  ex collects the instances examined.
RECURSIVE Walk(_, _, _, _, _, _)
Walk(svc, current_time, size, ki, i, ex) ==
    IF ki > Len(keys) THEN [pc |-> "done", svc |-> svc, ki |-> 0, i |-> 0, ex |-> ex]
    ELSE IF i > Len(svc[keys[ki]])
    THEN IF Len(keys) # size
         THEN [pc |-> "error", svc |-> svc, ki |-> 0, i |-> 0, ex |-> ex]
         ELSE Walk(svc, current_time, size, ki + 1, 1, ex)
    ELSE LET t == keys[ki]
             inst == CheckHeartbeatAt(svc[t][i], current_time)
             svc2 == [svc EXCEPT ![t][i] = inst]
             ex2 == ex \cup {<<t, inst.instance_id>>}
         IN IF inst.status = "unhealthy"
            THEN [pc |-> "probe", svc |-> svc2, ki |-> ki, i |-> i, ex |-> ex2]
            ELSE Walk(svc2, current_time, size, ki, i + 1, ex2)

\* what a walk leaves: the loop suspended in a probe, or the iteration over
\* with the status summary (done) or without it (error, logged by the
\* handler of the loop); either way the loop then sleeps one interval
AfterWalk(w, current_time, size, started, lost) ==
    /\ services' = w.svc
    /\ IF w.pc = "probe"
       THEN /\ tick' = [pc |-> "probe", current_time |-> current_time, size |-> size,
                        ki |-> w.ki, i |-> w.i, stored |-> TRUE,
                        started |-> started, examined |-> w.ex]
            /\ UNCHANGED <<status, healthDue>>
       ELSE /\ tick' = IdleTick
            /\ status' = IF w.pc = "done" THEN UpdateStatus(status, 0) ELSE status
            /\ healthDue' = now + HealthCheckInterval
    /\ resp' = [op |-> IF w.pc = "probe" THEN "tick_probe" ELSE "tick_end",
                error |-> w.pc = "error", started |-> started, examined |-> w.ex,
                lost |-> lost]
    /\ UNCHANGED <<now, keys, power_distribution, active_threats,
                   defense_protocols, powerDue>>
    /\ UNCHANGED <<monitorVars, agentVars, orchVars, managerVars, cacheVars>>

\* health_check_loop wakes up: current_time is read and the walk begins
\* (assess_threat flags nothing in these iterations)
tick_start ==
    /\ tick.pc = "idle"
    /\ now >= healthDue
    /\ AfterWalk(Walk(services, now, Len(keys), 1, 1, {}), now, Len(keys),
                 StoredIds(services), FALSE)

\* a loop that an exception ends: no further iteration becomes due
tick_resume_dies(ok) ==
    /\ tick.pc = "probe"
    /\ LET t == keys[tick.ki]
           svc1 == IF tick.stored
                   THEN [services EXCEPT ![t][tick.i] = RecoverAt(@, ok, tick.current_time)]
                   ELSE services
           w == Walk(svc1, tick.current_time, tick.size, tick.ki, tick.i + 1, tick.examined)
       IN IF w.pc = "error"
          THEN /\ services' = w.svc
               /\ tick' = [IdleTick EXCEPT !.pc = "crashed"]
               /\ resp' = [op |-> "tick_end", error |-> TRUE, started |-> tick.started,
                           examined |-> w.ex, lost |-> ok /\ ~tick.stored]
               /\ UNCHANGED <<now, keys, power_distribution, active_threats,
                              defense_protocols, powerDue, status, healthDue>>
               /\ UNCHANGED <<monitorVars, agentVars, orchVars, managerVars, cacheVars>>
          ELSE AfterWalk(w, tick.current_time, tick.size, tick.started,
                         ok /\ ~tick.stored)

\* the awaited probe is over (ok: it answered 200 in time; any exception of
\* it is passed over): the loop writes the recovery to the instance object it
\* holds, which a Register may have taken out of the list meanwhile, and
\* walks on
tick_resume(ok) ==
    /\ tick.pc = "probe"
    /\ LET t == keys[tick.ki]
           svc1 == IF tick.stored
                   THEN [services EXCEPT ![t][tick.i] = RecoverAt(@, ok, tick.current_time)]
                   ELSE services
       IN AfterWalk(Walk(svc1, tick.current_time, tick.size, tick.ki, tick.i + 1,
                         tick.examined),
                    tick.current_time, tick.size, tick.started, ok /\ ~tick.stored)

\* time passes while the loop awaits a probe
Elapse ==
    /\ tick.pc = "probe"
    /\ now < powerDue
    /\ now + TimeStep <= MaxTime
    /\ now' = now + TimeStep
    /\ resp' = [NoResp EXCEPT !.op = "elapse"]
    /\ UNCHANGED <<keys, services, power_distribution, active_threats,
                   defense_protocols, status, healthDue, powerDue>>
    /\ UNCHANGED <<monitorVars, agentVars, orchVars, tickVars, managerVars, cacheVars>>

(* -------------------------- power_management_loop ---------------------- *)
RECURSIVE SumDistribution(_, _)
SumDistribution(dist, ts) ==
    IF ts = {} THEN Rat(0, 1)
    ELSE LET t == CHOOSE x \in ts : TRUE
         IN RatAdd(dist[t], SumDistribution(dist, ts \ {t}))

\* a power status without the critical level
PowerStatusNoCritical(total_power) ==
    IF RatLT(total_power, 50) THEN "low"
    ELSE "optimal"

PowerStatus(total_power) ==
    IF RatLT(total_power, 30) THEN "critical"
    ELSE IF RatLT(total_power, 50) THEN "low"
    ELSE "optimal"

\* one iteration of power_management_loop
power_management_loop ==
    LET dist == allocate_power_distribution(services, KeySet) IN
    /\ now >= powerDue
    /\ services' = allocate_power(services)
    /\ power_distribution' = dist
    /\ status' = [status EXCEPT !.power_status =
                                   PowerStatus(SumDistribution(dist, DOMAIN dist))]
    /\ powerDue' = now + PowerInterval
    /\ resp' = [NoResp EXCEPT !.op = "power"]
    /\ UNCHANGED <<now, keys, active_threats, defense_protocols, healthDue>>
    /\ UNCHANGED <<monitorVars, agentVars, orchVars, tickVars, managerVars, cacheVars>>

(* ----------------------- activate_defense_protocol --------------------- *)
\* an activation that switches every other protocol off
activate_defense_protocol_exclusive(protocol) ==
    /\ IF protocol \notin DOMAIN defense_protocols
       THEN /\ UNCHANGED defense_protocols
            /\ resp' = [NoResp EXCEPT !.op = "activate", !.protocol = protocol,
                                      !.code = 404]
       ELSE /\ defense_protocols' = [k \in DOMAIN defense_protocols |-> k = protocol]
            /\ resp' = [NoResp EXCEPT !.op = "activate", !.protocol = protocol,
                                      !.code = 200]
    /\ UNCHANGED <<now, keys, services, power_distribution, active_threats,
                   status, healthDue, powerDue>>
    /\ UNCHANGED <<monitorVars, agentVars, orchVars, tickVars, managerVars, cacheVars>>

\* the route POST /defense/activate/{protocol}
activate_defense_protocol(protocol) ==
    /\ IF protocol \notin DOMAIN defense_protocols
       THEN /\ UNCHANGED defense_protocols
            /\ resp' = [NoResp EXCEPT !.op = "activate", !.protocol = protocol,
                                      !.code = 404]
       ELSE /\ defense_protocols' = [defense_protocols EXCEPT ![protocol] = TRUE]
            /\ resp' = [NoResp EXCEPT !.op = "activate", !.protocol = protocol,
                                      !.code = 200]
    /\ UNCHANGED <<now, keys, services, power_distribution, active_threats,
                   status, healthDue, powerDue>>
    /\ UNCHANGED <<monitorVars, agentVars, orchVars, tickVars, managerVars, cacheVars>>

(* ------------------------------ Advance -------------------------------- *)
\* the clock advances while no background loop is due
Advance ==
    /\ now < healthDue
    /\ now < powerDue
    /\ now + TimeStep <= MaxTime
    /\ now' = now + TimeStep
    /\ resp' = [NoResp EXCEPT !.op = "advance"]
    /\ UNCHANGED <<keys, services, power_distribution, active_threats,
                   defense_protocols, status, healthDue, powerDue>>
    /\ UNCHANGED <<monitorVars, agentVars, orchVars, tickVars, managerVars, cacheVars>>

(* ------------------- the Service Monitor (api.py) ---------------------- *)
\* servers and instance ids of the requests the monitor receives
Servers == {"llm", "db"}
MonitorIds == {1, 2}
\* StatusUpdate.status is a free string; the agents send these two
StatusValues == {"active", "dead"}
\* a request body's metadata: a dict, or JSON null
RequestMetadatas == {"dict", "null"}

\* d with d[k] = v, k added when missing
With(d, k, v) == [x \in DOMAIN d \cup {k} |-> IF x = k THEN v ELSE d[x]]

\* InstanceStatus(...) as register_instance builds it
InstanceStatus(server, id, port) ==
    [server |-> server, instance_id |-> id, status |-> "active", port |-> port,
     busy |-> FALSE, last_ping |-> clock, registered_at |-> clock,
     error_count |-> 0, last_error |-> "None"]

\* a deque that refuses entries once it is full
DequeAppendKeepOldest(q, e) ==
    IF Len(q) = HistoryCap THEN q ELSE Append(q, e)

\* deque(maxlen=100).append: a full deque drops its oldest entry
DequeAppend(q, e) ==
    IF Len(q) = HistoryCap THEN Append(Tail(q), e) ELSE Append(q, e)

\* POST /register (the first route of that path): creates the server's two
\* buckets when missing, then stores the instance and an empty history;
\* InstanceStatus rejects metadata = null, after the buckets were created
register_instance(server, id, port, metadata) ==
    LET inst0 == IF server \in DOMAIN instances THEN instances
                 ELSE With(instances, server, EmptyDict)
        hist0 == IF server \in DOMAIN instances THEN history
                 ELSE With(history, server, EmptyDict)
    IN
    /\ IF metadata = "null"
       THEN /\ instances' = inst0
            /\ history' = hist0
            /\ resp' = [op |-> "m_register", server |-> server, id |-> id, code |-> 500]
       ELSE /\ instances' = With(inst0, server,
                                 With(inst0[server], id, InstanceStatus(server, id, port)))
            /\ history' = With(hist0, server, With(hist0[server], id, <<>>))
            /\ resp' = [op |-> "m_register", server |-> server, id |-> id, code |-> 200]
    /\ UNCHANGED clock
    /\ UNCHANGED <<registryVars, agentVars, orchVars, tickVars, managerVars, cacheVars>>

\* POST /status
update_status(server, id, st, busy, error) ==
    /\ IF server \notin DOMAIN instances \/ id \notin DOMAIN instances[server]
       THEN /\ UNCHANGED <<instances, history>>
            /\ resp' = [op |-> "m_status", server |-> server, id |-> id,
                        status |-> st, code |-> 404, old_status |-> "None"]
       ELSE LET instance == instances[server][id]
                old_status == instance.status
            IN
            /\ instances' = [instances EXCEPT ![server][id] =
                                [instance EXCEPT
                                    !.status = st,
                                    !.busy = busy,
                                    !.last_ping = clock,
                                    !.error_count = IF error # "None" THEN @ + 1 ELSE @,
                                    !.last_error = IF error # "None" THEN error ELSE @]]
            /\ history' = IF old_status # st
                          THEN [history EXCEPT ![server][id] =
                                   DequeAppend(@, [timestamp |-> clock,
                                                   old_status |-> old_status,
                                                   new_status |-> st])]
                          ELSE history
            /\ resp' = [op |-> "m_status", server |-> server, id |-> id,
                        status |-> st, code |-> 200, old_status |-> old_status]
    /\ UNCHANGED clock
    /\ UNCHANGED <<registryVars, agentVars, orchVars, tickVars, managerVars, cacheVars>>

\* GET /health: marks every instance dead whose last ping is older than five
\* minutes (the counts it returns are not kept)
monitor_health ==
    /\ instances' = [server \in DOMAIN instances |->
                        [id \in DOMAIN instances[server] |->
                            IF instances[server][id].last_ping < clock - DeadAfter
                            THEN [instances[server][id] EXCEPT !.status = "dead"]
                            ELSE instances[server][id]]]
    /\ resp' = [op |-> "m_health", code |-> 200]
    /\ UNCHANGED <<clock, history>>
    /\ UNCHANGED <<registryVars, agentVars, orchVars, tickVars, managerVars, cacheVars>>

\* the ids of a server's bucket that cleanup deletes
LongIdle(server) ==
    {id \in DOMAIN instances[server] :
        instances[server][id].last_ping < clock - CleanupAfter}

\* the servers whose bucket is empty once cleanup has deleted the long idle
Emptied == {server \in DOMAIN instances : DOMAIN instances[server] \ LongIdle(server) = {}}

\* a cleanup that deletes the instances and forgets their histories
cleanup_dead_instances_keep_history ==
    /\ instances' = [server \in DOMAIN instances \ Emptied |->
                        [id \in DOMAIN instances[server] \ LongIdle(server) |->
                            instances[server][id]]]
    /\ history' = [server \in DOMAIN history \ Emptied |-> history[server]]
    /\ resp' = [op |-> "m_cleanup", code |-> 200,
                cleaned |-> {<<server, id>> \in Servers \X MonitorIds :
                                server \in DOMAIN instances /\ id \in LongIdle(server)}]
    /\ UNCHANGED clock
    /\ UNCHANGED <<registryVars, agentVars, orchVars, tickVars, managerVars, cacheVars>>

\* POST /cleanup
cleanup_dead_instances ==
    /\ instances' = [server \in DOMAIN instances \ Emptied |->
                        [id \in DOMAIN instances[server] \ LongIdle(server) |->
                            instances[server][id]]]
    /\ history' = [server \in DOMAIN history \ Emptied |->
                      [id \in DOMAIN history[server] \ LongIdle(server) |->
                          history[server][id]]]
    /\ resp' = [op |-> "m_cleanup", code |-> 200,
                cleaned |-> {<<server, id>> \in Servers \X MonitorIds :
                                server \in DOMAIN instances /\ id \in LongIdle(server)}]
    /\ UNCHANGED clock
    /\ UNCHANGED <<registryVars, agentVars, orchVars, tickVars, managerVars, cacheVars>>

\* the monitor's clock advances
ClockAdvance ==
    /\ clock + ClockStep <= MaxClock
    /\ clock' = clock + ClockStep
    /\ resp' = [op |-> "m_advance", code |-> 0]
    /\ UNCHANGED <<instances, history>>
    /\ UNCHANGED <<registryVars, agentVars, orchVars, tickVars, managerVars, cacheVars>>

(* ------------------- client agent (server_template.py) ------------------- *)
\* What a POST to the registry can come to: a 200 answer, another answer
\* (httpx does not raise for it), or an exception (no connection, timeout)
Outcomes == {"ok", "refused", "unreachable"}

\* What the GET of the agent's own /health can come to: a 200 answer, another
\* answer, or an exception
ProbeResults == {"ok", "bad", "error"}

\* a registry message: what it says and which part of the agent sent it
Message(msg, by) == [msg |-> msg, by |-> by]

\* the bound on the messages an agent sends
CanSend == Len(sent) < MaxSent

\* a task that asyncio.create_task has just created: it runs at once
Created == [pc |-> "sleep", delay |-> 0]

\* a task object exists and has not finished
Running(task) == task.pc \notin {"none", "done", "cancelled"}

\* DNSClient.register_service: one POST /register; on a 200 answer each of
\* the two loops is created unless its task is already set; False otherwise
DNSClient_register_service(by, outcome) ==
    /\ CanSend
    /\ service_config' = "set"
    /\ sent' = Append(sent, Message("register", by))
    /\ IF outcome = "ok"
         THEN /\ registered' = TRUE
              /\ heartbeat_task' =
                    IF heartbeat_task.pc = "none" THEN Created ELSE heartbeat_task
              /\ health_check_task' =
                    IF health_check_task.pc = "none"
                      THEN [pc |-> "sleep", delay |-> 0, fails |-> 0]
                      ELSE health_check_task
         ELSE UNCHANGED <<registered, heartbeat_task, health_check_task>>
    /\ resp' = [op |-> "c_" \o by, outcome |-> outcome]
    /\ UNCHANGED <<client_busy, closing>>

\* BaseServer.register_with_dns raising out of the startup event
register_with_dns_raises(outcome) ==
    /\ startup = "pending"
    /\ DNSClient_register_service("startup", outcome)
    /\ startup' = IF outcome = "ok" THEN "running" ELSE "crashed"
    /\ UNCHANGED <<registryVars, monitorVars, orchVars, tickVars, managerVars, cacheVars>>

\* BaseServer.register_with_dns, run by the startup event: one call of
\* register_service; a False answer is raised and caught in the same function
register_with_dns(outcome) ==
    /\ startup = "pending"
    /\ DNSClient_register_service("startup", outcome)
    /\ startup' = "running"
    /\ UNCHANGED <<registryVars, monitorVars, orchVars, tickVars, managerVars, cacheVars>>

\* a later explicit call of DNSClient.register_service by the running service
register_again(outcome) ==
    /\ startup = "running"
    /\ closing = "idle"
    /\ DNSClient_register_service("register", outcome)
    /\ UNCHANGED startup
    /\ UNCHANGED <<registryVars, monitorVars, orchVars, tickVars, managerVars, cacheVars>>

\* DNSClient._heartbeat_loop: the sleep is over (or the task has just been
\* created) and the POST /heartbeat is sent
heartbeat_post ==
    /\ heartbeat_task.pc = "sleep"
    /\ CanSend
    /\ heartbeat_task' = [heartbeat_task EXCEPT !.pc = "post"]
    /\ sent' = Append(sent, Message("heartbeat", "heartbeat"))
    /\ resp' = [op |-> "c_heartbeat_post", outcome |-> "none"]
    /\ UNCHANGED <<startup, service_config, registered, client_busy,
                   health_check_task, closing>>
    /\ UNCHANGED <<registryVars, monitorVars, orchVars, tickVars, managerVars, cacheVars>>

\* a heartbeat loop that ends when its POST raises
heartbeat_done_stops(outcome) ==
    /\ heartbeat_task.pc = "post"
    /\ heartbeat_task' = IF outcome = "unreachable"
                           THEN [pc |-> "done", delay |-> 0]
                           ELSE [pc |-> "sleep", delay |-> HeartbeatPeriod]
    /\ resp' = [op |-> "c_heartbeat_done", outcome |-> outcome]
    /\ UNCHANGED <<startup, service_config, registered, client_busy,
                   health_check_task, closing, sent>>
    /\ UNCHANGED <<registryVars, monitorVars, orchVars, tickVars, managerVars, cacheVars>>

\* DNSClient._heartbeat_loop: the POST is over; an exception is printed, any
\* answer is ignored, and the loop sleeps 10 seconds
heartbeat_done(outcome) ==
    /\ heartbeat_task.pc = "post"
    /\ heartbeat_task' = [pc |-> "sleep", delay |-> HeartbeatPeriod]
    /\ resp' = [op |-> "c_heartbeat_done", outcome |-> outcome]
    /\ UNCHANGED <<startup, service_config, registered, client_busy,
                   health_check_task, closing, sent>>
    /\ UNCHANGED <<registryVars, monitorVars, orchVars, tickVars, managerVars, cacheVars>>

\* DNSClient.update_status: sets busy and sends a POST /status with status
\* "active" when a configuration is set; exceptions are printed
DNSClient_update_status(b, by) ==
    /\ client_busy' = b
    /\ IF service_config = "set" /\ closing # "closed"
         THEN CanSend /\ sent' = Append(sent, Message("active", by))
         ELSE UNCHANGED sent

\* DNSClient._health_check_loop: the sleep is over and the GET of the
\* agent's own /health is sent
health_probe ==
    /\ health_check_task.pc = "sleep"
    /\ health_check_task' = [health_check_task EXCEPT !.pc = "probe"]
    /\ resp' = [op |-> "c_health_probe", outcome |-> "none"]
    /\ UNCHANGED <<startup, service_config, registered, client_busy,
                   heartbeat_task, closing, sent>>
    /\ UNCHANGED <<registryVars, monitorVars, orchVars, tickVars, managerVars, cacheVars>>

\* DNSClient._health_check_loop: the GET is over. A 200 answer pushes the
\* busy flag of the answer, another answer pushes busy = True (both through
\* update_status, a POST /status with status "active"); an exception sends
\* the POST /status with status "dead"
health_probed(result, b) ==
    /\ health_check_task.pc = "probe"
    /\ CanSend
    /\ IF result = "error"
         THEN /\ health_check_task' = [pc |-> "dead", delay |-> 0,
                                       fails |-> health_check_task.fails + 1]
              /\ sent' = Append(sent, Message("dead", "health"))
              /\ UNCHANGED client_busy
         ELSE /\ health_check_task' = [pc |-> "status", delay |-> 0, fails |-> 0]
              /\ DNSClient_update_status(IF result = "ok" THEN b ELSE TRUE, "health")
    /\ resp' = [op |-> "c_health_probed", outcome |-> result, busy |-> b]
    /\ UNCHANGED <<startup, service_config, registered, heartbeat_task, closing>>
    /\ UNCHANGED <<registryVars, monitorVars, orchVars, tickVars, managerVars, cacheVars>>

\* DNSClient.update_status called by the health loop: the POST is over; an
\* exception is printed, and the loop sleeps 60 seconds
health_status_done(outcome) ==
    /\ health_check_task.pc = "status"
    /\ health_check_task' = [health_check_task EXCEPT !.pc = "sleep",
                                                      !.delay = SelfCheckPeriod]
    /\ resp' = [op |-> "c_health_status_done", outcome |-> outcome]
    /\ UNCHANGED <<startup, service_config, registered, client_busy,
                   heartbeat_task, closing, sent>>
    /\ UNCHANGED <<registryVars, monitorVars, orchVars, tickVars, managerVars, cacheVars>>

\* a health loop whose dead report ends the loop whatever comes of the POST
health_dead_done_breaks(outcome) ==
    /\ health_check_task.pc = "dead"
    /\ health_check_task' = [health_check_task EXCEPT !.pc = "done", !.delay = 0]
    /\ resp' = [op |-> "c_health_dead_done", outcome |-> outcome]
    /\ UNCHANGED <<startup, service_config, registered, client_busy,
                   heartbeat_task, closing, sent>>
    /\ UNCHANGED <<registryVars, monitorVars, orchVars, tickVars, managerVars, cacheVars>>

\* DNSClient._health_check_loop: the POST of the dead report is over. With
\* an answer the loop breaks; an exception skips the break, is printed by
\* the outer handler, and the loop sleeps 60 seconds
health_dead_done(outcome) ==
    /\ health_check_task.pc = "dead"
    /\ health_check_task' = IF outcome = "unreachable"
                              THEN [health_check_task EXCEPT !.pc = "sleep",
                                                             !.delay = SelfCheckPeriod]
                              ELSE [health_check_task EXCEPT !.pc = "done", !.delay = 0]
    /\ resp' = [op |-> "c_health_dead_done", outcome |-> outcome]
    /\ UNCHANGED <<startup, service_config, registered, client_busy,
                   heartbeat_task, closing, sent>>
    /\ UNCHANGED <<registryVars, monitorVars, orchVars, tickVars, managerVars, cacheVars>>

\* BaseServer.set_busy: a task running update_status(busy) when the client
\* exists
set_busy(b) ==
    /\ startup = "running"
    /\ closing = "idle"
    /\ DNSClient_update_status(b, "set_busy")
    /\ resp' = [op |-> "c_set_busy", outcome |-> "none", busy |-> b]
    /\ UNCHANGED <<startup, service_config, registered, heartbeat_task,
                   health_check_task, closing>>
    /\ UNCHANGED <<registryVars, monitorVars, orchVars, tickVars, managerVars, cacheVars>>

\* DNSClient.close, first part: the POST /status with status "dead" is sent
\* when a configuration is set
close_begin ==
    /\ startup = "running"
    /\ closing = "idle"
    /\ CanSend
    /\ closing' = "dead"
    /\ sent' = IF service_config = "set"
                 THEN Append(sent, Message("dead", "close")) ELSE sent
    /\ resp' = [op |-> "c_close_begin", outcome |-> "none"]
    /\ UNCHANGED <<startup, service_config, registered, client_busy,
                   heartbeat_task, health_check_task>>
    /\ UNCHANGED <<registryVars, monitorVars, orchVars, tickVars, managerVars, cacheVars>>

\* cancel() on the heartbeat task: CancelledError is no Exception, so the
\* loop's handler does not catch it
CancelHeartbeat(task) ==
    IF Running(task) THEN [pc |-> "cancelled", delay |-> 0] ELSE task

\* DNSClient.close, second part: the POST is over (an exception is passed
\* over), the heartbeat task is cancelled and awaited
close_dead_done(outcome) ==
    /\ closing = "dead"
    /\ closing' = "heartbeat"
    /\ heartbeat_task' = CancelHeartbeat(heartbeat_task)
    /\ resp' = [op |-> "c_close_dead_done", outcome |-> outcome]
    /\ UNCHANGED <<startup, service_config, registered, client_busy,
                   health_check_task, sent>>
    /\ UNCHANGED <<registryVars, monitorVars, orchVars, tickVars, managerVars, cacheVars>>

\* cancel() on the health task. In the sleep, or in the POST of the dead
\* report, the CancelledError ends the task. In the GET or in update_status
\* the bare except of the loop catches it and the loop goes on to send the
\* dead report
CancelHealth(task) ==
    CASE task.pc \in {"sleep", "dead"} -> [task EXCEPT !.pc = "cancelled", !.delay = 0]
      [] task.pc \in {"probe", "status"} -> [task EXCEPT !.pc = "dead", !.delay = 0]
      [] OTHER -> task

\* DNSClient.close, third part: the health task is cancelled and awaited
close_cancel_health ==
    /\ closing = "heartbeat"
    /\ closing' = "health"
    /\ health_check_task' = CancelHealth(health_check_task)
    /\ IF health_check_task.pc \in {"probe", "status"}
         THEN CanSend /\ sent' = Append(sent, Message("dead", "health"))
         ELSE UNCHANGED sent
    /\ resp' = [op |-> "c_close_cancel_health", outcome |-> "none"]
    /\ UNCHANGED <<startup, service_config, registered, client_busy, heartbeat_task>>
    /\ UNCHANGED <<registryVars, monitorVars, orchVars, tickVars, managerVars, cacheVars>>

\* DNSClient.close, last part: the awaited health task has ended and the
\* HTTP client is released
close_finish ==
    /\ closing = "health"
    /\ ~Running(health_check_task)
    /\ closing' = "closed"
    /\ resp' = [op |-> "c_close_finish", outcome |-> "none"]
    /\ UNCHANGED <<startup, service_config, registered, client_busy,
                   heartbeat_task, health_check_task, sent>>
    /\ UNCHANGED <<registryVars, monitorVars, orchVars, tickVars, managerVars, cacheVars>>

(* ---------- orchestrator (main_server/services/orchestrator.py) ---------- *)
\* the bound on the messages the orchestrator sends
OrchCanSend == Len(orch.sent) < MaxSent

\* a POST through dns_client: it is sent unless the client has been closed
\* (a closed client raises before anything is sent)
OrchPost(msg, by) ==
    IF orch.closing = "closed" THEN orch.sent ELSE Append(orch.sent, Message(msg, by))

\* ServiceOrchestrator.register_with_dns, the task created in __init__: one
\* POST /register; an exception is printed, the answer is not looked at
orchestrator_register_with_dns(outcome) ==
    /\ orch.register = "pending"
    /\ OrchCanSend
    /\ orch' = [orch EXCEPT !.register = "done", !.sent = OrchPost("register", "startup")]
    /\ resp' = [op |-> "o_register", outcome |-> outcome]
    /\ UNCHANGED <<registryVars, monitorVars, agentVars, tickVars, managerVars, cacheVars>>

\* ServiceOrchestrator.heartbeat_loop, the task created in __init__: the
\* sleep is over (or the task has just been created) and the POST is sent;
\* with a closed client the POST raises, which is printed, and the loop
\* sleeps again
orchestrator_heartbeat_post ==
    /\ orch.heartbeat.pc = "sleep"
    /\ OrchCanSend
    /\ orch' = [orch EXCEPT
                  !.heartbeat = IF orch.closing = "closed"
                                  THEN [pc |-> "sleep", delay |-> HeartbeatPeriod]
                                  ELSE [pc |-> "post", delay |-> 0],
                  !.sent = OrchPost("heartbeat", "heartbeat")]
    /\ resp' = [op |-> "o_heartbeat_post", outcome |-> "none"]
    /\ UNCHANGED <<registryVars, monitorVars, agentVars, tickVars, managerVars, cacheVars>>

\* ServiceOrchestrator.heartbeat_loop: the POST is over; an exception is
\* printed, any answer is ignored, and the loop sleeps 10 seconds
orchestrator_heartbeat_done(outcome) ==
    /\ orch.heartbeat.pc = "post"
    /\ orch' = [orch EXCEPT !.heartbeat = [pc |-> "sleep", delay |-> HeartbeatPeriod]]
    /\ resp' = [op |-> "o_heartbeat_done", outcome |-> outcome]
    /\ UNCHANGED <<registryVars, monitorVars, agentVars, tickVars, managerVars, cacheVars>>

\* ServiceOrchestrator.close, first part: the POST with status "dead" is sent
orchestrator_close_begin ==
    /\ orch.closing = "idle"
    /\ OrchCanSend
    /\ orch' = [orch EXCEPT !.closing = "dead", !.sent = OrchPost("dead", "close")]
    /\ resp' = [op |-> "o_close_begin", outcome |-> "none"]
    /\ UNCHANGED <<registryVars, monitorVars, agentVars, tickVars, managerVars, cacheVars>>

\* ServiceOrchestrator.close, second part: the POST is over (an exception is
\* passed over) and both HTTP clients are released; no task is cancelled
orchestrator_close_done(outcome) ==
    /\ orch.closing = "dead"
    /\ orch' = [orch EXCEPT !.closing = "closed"]
    /\ resp' = [op |-> "o_close_done", outcome |-> outcome]
    /\ UNCHANGED <<registryVars, monitorVars, agentVars, tickVars, managerVars, cacheVars>>

(* ------------- the server manager's shared DNSClient ------------------ *)
\* ServerManager.start_server creates the task register_with_dns(name, port),
\* which calls register_service on the manager's one DNSClient: the client's
\* service_config becomes the new config before the POST /register is
\* awaited. A config is identified by its service type here.
start_server(name) ==
    /\ name \notin manager.calls
    /\ manager' = [manager EXCEPT !.service_config = name,
                                  !.calls = @ \cup {name}]
    /\ resp' = [op |-> "m_start_server", name |-> name, beaten |-> {}]
    /\ UNCHANGED <<registryVars, monitorVars, agentVars, orchVars, tickVars, cacheVars>>

\* the rest of DNSClient.register_service once the POST /register of name is
\* answered: on a 200 each loop is created unless its task is already set
register_service_answered(name, outcome) ==
    /\ name \in manager.calls
    /\ manager' =
          IF outcome = "ok"
            THEN [manager EXCEPT
                    !.calls = @ \ {name},
                    !.registered = @ \cup {name},
                    !.heartbeat_task = IF @ = "None" THEN "running" ELSE @,
                    !.heartbeat_tasks =
                        IF manager.heartbeat_task = "None" THEN @ + 1 ELSE @,
                    !.health_check_task = IF @ = "None" THEN "running" ELSE @,
                    !.health_check_tasks =
                        IF manager.health_check_task = "None" THEN @ + 1 ELSE @]
            ELSE [manager EXCEPT !.calls = @ \ {name}]
    /\ resp' = [op |-> "m_registered", name |-> name, outcome |-> outcome,
                beaten |-> {}]
    /\ UNCHANGED <<registryVars, monitorVars, agentVars, orchVars, tickVars, cacheVars>>

\* one iteration of DNSClient._heartbeat_loop in the manager's client: one
\* POST /heartbeat, for the service of self.service_config
manager_heartbeat ==
    /\ manager.heartbeat_task = "running"
    /\ manager.service_config # "None"
    /\ manager.beats[manager.service_config] < MaxSent
    /\ manager' = [manager EXCEPT !.beats[manager.service_config] = @ + 1]
    /\ resp' = [op |-> "m_heartbeat", name |-> manager.service_config,
                beaten |-> {manager.service_config}]
    /\ UNCHANGED <<registryVars, monitorVars, agentVars, orchVars, tickVars, cacheVars>>

\* one iteration of DNSClient._health_check_loop in the manager's client: the
\* probe of the port of self.service_config; when the probe raises, the
\* service is reported dead and the loop ends, the task object stays set
manager_health_check(result) ==
    /\ manager.health_check_task = "running"
    /\ manager' = [manager EXCEPT
                     !.health_check_task = IF result = "error" THEN "done" ELSE @]
    /\ resp' = [op |-> "m_health_check", name |-> manager.service_config,
                result |-> result, beaten |-> {}]
    /\ UNCHANGED <<registryVars, monitorVars, agentVars, orchVars, tickVars, cacheVars>>

(* --------------------- client-side lookup caches ----------------------- *)
\* the cache lifetime both clients compare with, in seconds
CacheTTL == 300
\* timedelta keeps days, seconds and microseconds apart: seconds is the part
\* of the difference within a day
SecondsPerDay == 86400

\* (later - earlier).seconds of two datetimes, in whole seconds
timedelta_seconds(later, earlier) == (later - earlier) % SecondsPerDay

\* the urls the registry may answer a lookup with
Urls == {"http://a:5001", "http://b:5002"}
\* settings.LLM_SERVER_URL, the orchestrator's fall-back
FallbackUrl == "http://localhost:8000"
LookupOutcomes == {"ok", "error"}

\* dict[key] = value
DictSet(dict, key, value) ==
    [k \in DOMAIN dict \cup {key} |-> IF k = key THEN value ELSE dict[k]]

\* what a lookup did: the entry it found and the entry's true age in seconds
Lookup(op, found, age, cached, url) ==
    [op |-> op, found |-> found, age |-> age, cached |-> cached, url |-> url]

\* ServiceOrchestrator.get_service_url: the cached url while the entry's
\* .seconds is below 300; otherwise GET /service/{type}, storing the answer
\* with datetime.now(), or the configured url when the request fails
get_service_url(service_type, outcome, url) ==
    LET found == service_type \in DOMAIN service_cache
        age == IF found THEN wall - service_cache[service_type].timestamp ELSE 0
    IN
    /\ IF found /\ timedelta_seconds(wall, service_cache[service_type].timestamp)
                      < CacheTTL
         THEN /\ resp' = Lookup("get_service_url", found, age, TRUE,
                               service_cache[service_type].url)
              /\ UNCHANGED service_cache
         ELSE IF outcome = "ok"
           THEN /\ service_cache' = DictSet(service_cache, service_type,
                                            [url |-> url, timestamp |-> wall])
                /\ resp' = Lookup("get_service_url", found, age, FALSE, url)
           ELSE /\ resp' = Lookup("get_service_url", found, age, FALSE, FallbackUrl)
                /\ UNCHANGED service_cache
    /\ UNCHANGED <<registryVars, monitorVars, agentVars, orchVars, tickVars,
                   managerVars, wall, cache>>

\* the functional server's DNSClient.get_service: the cached data while the
\* entry's .seconds is below 300; otherwise GET /status/{name}, storing the
\* answer with datetime.now(); a failing request raises to the caller
DNSClient_get_service(service_name, outcome, data) ==
    LET found == service_name \in DOMAIN cache
        age == IF found THEN wall - cache[service_name].timestamp ELSE 0
    IN
    /\ IF found /\ timedelta_seconds(wall, cache[service_name].timestamp) < CacheTTL
         THEN /\ resp' = Lookup("get_service", found, age, TRUE,
                               cache[service_name].data)
              /\ UNCHANGED cache
         ELSE IF outcome = "ok"
           THEN /\ cache' = DictSet(cache, service_name,
                                    [data |-> data, timestamp |-> wall])
                /\ resp' = Lookup("get_service", found, age, FALSE, data)
           ELSE /\ resp' = Lookup("get_service", found, age, FALSE, "raised")
                /\ UNCHANGED cache
    /\ UNCHANGED <<registryVars, monitorVars, agentVars, orchVars, tickVars,
                   managerVars, wall, service_cache>>

\* datetime.now() moves on by AgeStep seconds
seconds_pass ==
    /\ (wall % SecondsPerDay) + AgeStep <= MaxAge
    /\ wall' = wall + AgeStep
    /\ resp' = [op |-> "seconds_pass"]
    /\ UNCHANGED <<registryVars, monitorVars, agentVars, orchVars, tickVars,
                   managerVars, service_cache, cache>>

\* datetime.now() moves on by a day
day_passes ==
    /\ wall \div SecondsPerDay < MaxDays
    /\ wall' = wall + SecondsPerDay
    /\ resp' = [op |-> "day_passes"]
    /\ UNCHANGED <<registryVars, monitorVars, agentVars, orchVars, tickVars,
                   managerVars, service_cache, cache>>

(* --------------------------- specifications --------------------------- *)
\* Register may add a new instance only while fewer than cap are stored
\* (re-registering a stored pair is always possible)
Room(t, id, cap) == Matches(services, t, id) # {} \/ TotalInstances(services) < cap

Loops ==
    \/ \E ok \in SUBSET Probed : health_check_loop(NoThreat, ok)
    \/ power_management_loop
    \/ Advance

\* Spec: both service types, registrations without metadata, heartbeats
\* without metrics, lookups without requirements
Next ==
    \/ \E t \in Types, id \in InstanceIds, p \in Ports :
          Room(t, id, MaxInstances) /\ register_service(t, id, p, EmptyDict)
    \/ \E t \in Types, id \in InstanceIds : update_heartbeat(t, id, FALSE, EmptyDict)
    \/ \E t \in Types : get_service(t, EmptyDict)
    \/ Loops

Spec == Init /\ [][Next]_vars

\* SpecSelect: one service type, lookups with requirements
NextSelect ==
    \/ \E id \in InstanceIds, p \in Ports, m \in Metadatas :
          Room("llm", id, MaxInstances) /\ register_service("llm", id, p, m)
    \/ \E id \in InstanceIds : update_heartbeat("llm", id, FALSE, EmptyDict)
    \/ \E r \in Requirements : get_service("llm", r)
    \/ Loops

SpecSelect == Init /\ [][NextSelect]_vars

\* SpecBeat: one service type, heartbeats that report a busy flag and metrics
NextBeat ==
    \/ \E id \in InstanceIds, p \in Ports :
          Room("db", id, MaxInstances) /\ register_service("db", id, p, EmptyDict)
    \/ \E id \in InstanceIds, b \in BOOLEAN, m \in MetricInputs :
          update_heartbeat("db", id, b, m)
    \/ Loops

SpecBeat == Init /\ [][NextBeat]_vars

\* SpecFleet: a fleet of llm instances, registered in the order of their ids
\* and silent afterwards, beside one db instance that sends heartbeats
NextFleet ==
    \/ \E p \in Ports : register_service("db", 1, p, EmptyDict)
    \/ \E p \in Ports :
          /\ Len(services["llm"]) < MaxFleet
          /\ register_service("llm", Len(services["llm"]) + 1, p, EmptyDict)
    \/ update_heartbeat("db", 1, FALSE, EmptyDict)
    \/ \E t \in Types : get_service(t, EmptyDict)
    \/ Loops

SpecFleet == Init /\ [][NextFleet]_vars

\* protocol names given to the activation route; "shield" is not a protocol
ProtocolNames == {"lockdown", "enhanced_monitoring", "auto_recovery", "shield"}

\* SpecDefense: one db instance, health ticks in which assess_threat may flag
\* it, and protocol activation
NextDefense ==
    \/ \E p \in Ports : register_service("db", 1, p, EmptyDict)
    \/ update_heartbeat("db", 1, FALSE, EmptyDict)
    \/ get_service("db", EmptyDict)
    \/ \E thr \in ThreatDraws, ok \in SUBSET Probed : health_check_loop(thr, ok)
    \/ power_management_loop
    \/ Advance
    \/ \E name \in ProtocolNames : activate_defense_protocol(name)

SpecDefense == Init /\ [][NextDefense]_vars

\* SpecHistory: the Service Monitor with one instance whose status is
\* updated over and over; the clock advances once
NextHistory ==
    \/ \E port \in Ports : register_instance("llm", 1, port, "dict")
    \/ \E st \in StatusValues : update_status("llm", 1, st, FALSE, "None")
    \/ clock = 0 /\ ClockAdvance

SpecHistory == Init /\ [][NextHistory]_vars

\* the length of the history of an instance (0 when it has none)
HistoryLen(server, id) ==
    IF server \in DOMAIN history /\ id \in DOMAIN history[server]
    THEN Len(history[server][id]) ELSE 0

\* SpecCleanup: the Service Monitor with instances of two servers,
\* registrations, status updates, health sweeps and cleanups over 45 minutes
NextCleanup ==
    \/ \E server \in Servers, id \in MonitorIds, port \in Ports, m \in RequestMetadatas :
          /\ server = "db" => id = 1
          /\ register_instance(server, id, port, m)
    \/ \E server \in Servers, id \in MonitorIds, st \in StatusValues :
          /\ server = "db" => id = 1
          /\ HistoryLen(server, id) < MaxEntries
          /\ update_status(server, id, st, FALSE, "None")
    \/ monitor_health
    \/ cleanup_dead_instances
    \/ ClockAdvance

SpecCleanup == Init /\ [][NextCleanup]_vars

\* SpecAgent: one client agent from its startup to the end of its close
NextAgent ==
    \/ \E outcome \in Outcomes : register_with_dns(outcome)
    \/ \E outcome \in Outcomes : register_again(outcome)
    \/ heartbeat_post
    \/ \E outcome \in Outcomes : heartbeat_done(outcome)
    \/ health_probe
    \/ \E result \in ProbeResults, b \in BOOLEAN : health_probed(result, b)
    \/ \E outcome \in Outcomes : health_status_done(outcome)
    \/ \E outcome \in Outcomes : health_dead_done(outcome)
    \/ \E b \in BOOLEAN : set_busy(b)
    \/ close_begin
    \/ \E outcome \in Outcomes : close_dead_done(outcome)
    \/ close_cancel_health
    \/ close_finish

SpecAgent == Init /\ [][NextAgent]_vars

\* SpecOrch: the orchestrator from its construction to the end of its close
NextOrch ==
    \/ \E outcome \in Outcomes : orchestrator_register_with_dns(outcome)
    \/ orchestrator_heartbeat_post
    \/ \E outcome \in Outcomes : orchestrator_heartbeat_done(outcome)
    \/ orchestrator_close_begin
    \/ \E outcome \in Outcomes : orchestrator_close_done(outcome)

SpecOrch == Init /\ [][NextOrch]_vars

\* SpecHost: db instances registered with and without a host in the body
NextHost ==
    \/ \E id \in InstanceIds, host \in Hosts, p \in Ports :
          Room("db", id, MaxInstances) /\ register_service_route("db", id, host, p, EmptyDict)
    \/ \E id \in InstanceIds : update_heartbeat("db", id, FALSE, EmptyDict)
    \/ get_service("db", EmptyDict)
    \/ Loops

SpecHost == Init /\ [][NextHost]_vars

\* SpecTick: the health_check_loop followed through its awaits, with
\* registrations and heartbeats processed while a probe is awaited
NextTick ==
    \/ \E id \in InstanceIds, p \in Ports :
          Room("llm", id, MaxInstances + 1) /\ register_service("llm", id, p, EmptyDict)
    \/ \E p \in Ports :
          Room("db", 1, MaxInstances + 1) /\ register_service("db", 1, p, EmptyDict)
    \/ \E id \in InstanceIds : update_heartbeat("llm", id, FALSE, EmptyDict)
    \/ tick_start
    \/ \E ok \in BOOLEAN : tick_resume(ok)
    \/ Elapse
    \/ power_management_loop
    \/ Advance

SpecTick == Init /\ [][NextTick]_vars

(* ------------------------------- claims -------------------------------- *)
\* the instance the last operation stored, updated or returned
RespInstance == services[resp.stype][resp.idx]

\* instance ids of a list, in list order
Ids(lst) == [i \in 1..Len(lst) |-> lst[i].instance_id]

\* C1: at most one stored instance per (serviceType, instanceId); a Register
\* of a stored pair replaces that entry in place, leaves the instance count of
\* the type unchanged and the entry carries the metadata of that Register
\* (a Register of a new pair adds exactly one entry at the end).
C1_IdempotentUpsert ==
    [][ /\ \A t \in Types : \A i, j \in 1..Len(services'[t]) :
              i # j => services'[t][i].instance_id # services'[t][j].instance_id
        /\ resp'.op = "register" =>
              LET t == resp'.stype
                  id == resp'.id
              IN /\ \A u \in Types \ {t} : Ids(services'[u]) = Ids(services[u])
                 /\ IF Matches(services, t, id) # {}
                    THEN /\ Ids(services'[t]) = Ids(services[t])
                         /\ resp'.replaced
                         /\ services'[t][resp'.idx].instance_id = id
                         /\ services'[t][resp'.idx].metadata = resp'.arg
                    ELSE /\ Ids(services'[t]) = Append(Ids(services[t]), id)
                         /\ services'[t][Len(services'[t])].metadata = resp'.arg
      ]_vars

\* C1 witness: a stored pair has been registered again, with metadata, while
\* another instance of the type is stored
C1_Witness ==
    /\ resp.op = "register"
    /\ resp.replaced
    /\ resp.arg = [region |-> "a"]
    /\ Len(services[resp.stype]) = 2

\* C2: Register stores the instance with status healthy and lastHeartbeat
\* equal to the time at which the Register call is processed.
C2_RegisterSetsNow ==
    resp.op = "register" =>
        /\ RespInstance.status = "healthy"
        /\ RespInstance.last_heartbeat = now

\* C3: immediately after a Register(type, id), GetService(type) without
\* requirements succeeds, and returns that instance when it is the only one
\* of its type.
C3_RegisterThenGet ==
    resp.op = "register" =>
        /\ get_service_result(resp.stype, EmptyDict).code = 200
        /\ Len(services[resp.stype]) = 1 =>
              get_service_result(resp.stype, EmptyDict).idx = resp.idx

\* a GetService for a type whose only instance has a heartbeat older than 30s
\* answers 503
StaleUnavailable ==
    (/\ resp.op = "get"
     /\ Len(services[resp.stype]) = 1
     /\ Age(services[resp.stype][1]) > HealthyThreshold) => resp.code = 503

\* C4: an only instance whose heartbeat is older than 30s makes
\* GetService answer 503, and right after a Health Monitor tick on which its
\* probe returned 200 GetService returns it.
C4_StaleThenRecovered ==
    /\ StaleUnavailable
    /\ resp.op = "health" =>
          \A t \in Types :
              (Len(services[t]) = 1 /\ <<t, 1>> \in resp.probes) =>
                  get_service_result(t, EmptyDict) = [code |-> 200, idx |-> 1]

\* the recovery restores the instance to GetService whenever its powerLevel
\* after the recovery is above 20
StaleThenRecoveredWithPower ==
    /\ StaleUnavailable
    /\ resp.op = "health" =>
          \A t \in Types :
              (/\ Len(services[t]) = 1
               /\ <<t, 1>> \in resp.probes
               /\ RatGT(services[t][1].power_level, MinPower)) =>
                  get_service_result(t, EmptyDict) = [code |-> 200, idx |-> 1]

\* C5: GetService never returns an instance that is not healthy, whose
\* heartbeat age is 30s or more, or whose powerLevel is 20 or less; and a
\* Heartbeat, tick or GetService removes no stored instance.
C5_OnlyEligibleReturned ==
    [][ /\ (resp'.op = "get" /\ resp'.code = 200) =>
              LET inst == services'[resp'.stype][resp'.idx]
              IN /\ inst.status = "healthy"
                 /\ now' - inst.last_heartbeat < 30
                 /\ ~(inst.power_level.n <= 20 * inst.power_level.d)
        /\ resp'.op # "register" =>
              \A t \in Types : Ids(services'[t]) = Ids(services[t])
      ]_vars

\* C5 witness: GetService answered 503 for a type that stores a healthy
\* instance with a fresh heartbeat, excluded for its powerLevel alone
C5_Witness ==
    /\ resp.op = "get"
    /\ resp.code = 503
    /\ \E i \in 1..Len(services[resp.stype]) :
          LET inst == services[resp.stype][i]
          IN /\ inst.status = "healthy"
             /\ now - inst.last_heartbeat < 30
             /\ inst.power_level.n <= 20 * inst.power_level.d

\* an instance that passes the health / heartbeat-age / power filter
Eligible(inst) ==
    /\ inst.status = "healthy"
    /\ now - inst.last_heartbeat < 30
    /\ inst.power_level.n > 20 * inst.power_level.d

\* C6: GetService(type) answers 404 exactly when no instance of the type is
\* registered, 503 exactly when some are registered and none passes the
\* filter, and otherwise returns an instance of the requested type.
C6_NotFoundUnavailable ==
    resp.op = "get" =>
        LET lst == services[resp.stype]
            some == \E i \in 1..Len(lst) : Eligible(lst[i])
        IN /\ resp.code = 404 <=> Len(lst) = 0
           /\ resp.code = 503 <=> (Len(lst) > 0 /\ ~some)
           /\ resp.code \notin {404, 503} =>
                 /\ resp.code = 200
                 /\ resp.idx \in 1..Len(lst)
                 /\ lst[resp.idx].server = resp.stype

\* C6 witness: a registered type with no instance passing the filter
C6_Witness ==
    /\ resp.op = "get"
    /\ resp.code = 503
    /\ Len(services[resp.stype]) > 0

\* indices of the instances of type t that pass the filter
EligibleSet(t) == {i \in 1..Len(services[t]) : Eligible(services[t][i])}

\* those of them whose metadata has every required key with the required value
MatchingSet(t, req) ==
    {i \in EligibleSet(t) :
        \A k \in DOMAIN req :
            k \in DOMAIN services[t][i].metadata /\ services[t][i].metadata[k] = req[k]}

\* C7: with non-empty requirements, if some filtered candidate matches them
\* the returned instance is a matching candidate; if none matches the result
\* is the result of GetService without requirements (no 503).
C7_RequirementsFallback ==
    (resp.op = "get" /\ resp.arg # EmptyDict /\ EligibleSet(resp.stype) # {}) =>
        /\ resp.code = 200
        /\ IF MatchingSet(resp.stype, resp.arg) # {}
           THEN resp.idx \in MatchingSet(resp.stype, resp.arg)
           ELSE [code |-> resp.code, idx |-> resp.idx] =
                    get_service_result(resp.stype, EmptyDict)

\* C7 witness: requirements that no filtered candidate matches
C7_Witness ==
    /\ resp.op = "get"
    /\ resp.arg # EmptyDict
    /\ EligibleSet(resp.stype) # {}
    /\ MatchingSet(resp.stype, resp.arg) = {}

\* the candidates GetService chooses among
FinalSet(t, req) ==
    IF req # EmptyDict /\ MatchingSet(t, req) # {} THEN MatchingSet(t, req)
    ELSE EligibleSet(t)

\* C8: GetService returns a candidate of maximal score, the earliest stored
\* one among those of maximal score; with equal heartbeat age the candidate
\* of higher powerLevel wins.
C8_MaxScoreFirst ==
    (resp.op = "get" /\ resp.code = 200) =>
        LET lst == services[resp.stype]
            c == FinalSet(resp.stype, resp.arg)
        IN /\ resp.idx \in c
           /\ \A j \in c : ~ScoreGT(lst[j], lst[resp.idx])
           /\ \A j \in c : j < resp.idx => ScoreGT(lst[resp.idx], lst[j])
           /\ \A j \in c :
                 (Age(lst[j]) = Age(lst[resp.idx]) /\ j # resp.idx) =>
                     lst[j].power_level.n * lst[resp.idx].power_level.d
                         <= lst[resp.idx].power_level.n * lst[j].power_level.d

\* C8 witness: two candidates of equal score, the earlier one returned
C8_Witness ==
    /\ resp.op = "get"
    /\ resp.code = 200
    /\ resp.idx = 1
    /\ 2 \in FinalSet(resp.stype, resp.arg)
    /\ ~ScoreGT(services[resp.stype][1], services[resp.stype][2])

\* C9: a Heartbeat for a pair that is not registered answers 404, creates no
\* instance and leaves the stored instances and the type map unchanged.
C9_UnknownHeartbeat ==
    [][ (resp'.op = "heartbeat" /\ Matches(services, resp'.stype, resp'.id) = {}) =>
            /\ resp'.code = 404
            /\ services' = services
            /\ keys' = keys
      ]_vars

\* C9 witness: a 404 heartbeat for an unknown id of a type that has instances
C9_Witness ==
    /\ resp.op = "heartbeat"
    /\ resp.code = 404
    /\ Len(services[resp.stype]) > 0

\* what a Heartbeat step does to the registered pair it names, busy aside
HeartbeatEffect(withBusy) ==
    (resp'.op = "heartbeat" /\ Matches(services, resp'.stype, resp'.id) # {}) =>
        LET t == resp'.stype
            i == FirstMatch(services, t, resp'.id)
            old == services[t][i]
            new == services'[t][i]
            rep == resp'.arg
        IN /\ resp'.code = 200
           /\ new.last_heartbeat = now'
           /\ withBusy => ("busy" \in DOMAIN new /\ new.busy = resp'.busy)
           /\ DOMAIN new.performance_metrics =
                  DOMAIN old.performance_metrics \cup DOMAIN rep
           /\ \A k \in DOMAIN rep : new.performance_metrics[k] = rep[k]
           /\ \A k \in DOMAIN old.performance_metrics \ DOMAIN rep :
                  new.performance_metrics[k] = old.performance_metrics[k]
           /\ \A u \in Types : \A j \in 1..Len(services[u]) :
                  <<u, j>> # <<t, i>> => services'[u][j] = services[u][j]
           /\ \A u \in Types : Len(services'[u]) = Len(services[u])

IsHealthTick == resp'.op = "health"

\* the heartbeat of the instance at position p was older than the threshold
\* when the tick read the clock
StaleAt(p) == now - services[p[1]][p[2]].last_heartbeat > HealthyThreshold

\* what a tick does to the instances whose probe did not answer 200 (none was
\* sent, or it failed): a stale instance is unhealthy afterwards, any other
\* keeps its status and power.  With once = TRUE the power of a stale
\* instance is multiplied by 0.8 only if the instance was healthy before the
\* tick; with once = FALSE it is multiplied by 0.8 whatever its status was.
DecayEffect(once) ==
    IsHealthTick =>
        \A p \in PositionSet \ resp'.probes :
            LET old == services[p[1]][p[2]]
                new == services'[p[1]][p[2]]
            IN IF StaleAt(p)
               THEN /\ new.status = "unhealthy"
                    /\ new.power_level =
                          IF once /\ old.status = "unhealthy" THEN old.power_level
                          ELSE RatMul(old.power_level, 4, 5)
               ELSE /\ new.status = old.status
                    /\ new.power_level = old.power_level

\* C11 (as stated): on a tick an instance goes healthy -> unhealthy exactly
\* when now - lastHeartbeat > 30, and powerLevel *= 0.8 is applied once per
\* healthy -> unhealthy transition, not again on later ticks while the
\* instance is already unhealthy.
C11_DecayOncePerTransition == [][DecayEffect(TRUE)]_vars

\* C11 (amended): on a tick an instance goes healthy -> unhealthy exactly
\* when now - lastHeartbeat > 30, and powerLevel *= 0.8 is applied on every
\* tick that finds the heartbeat older than 30s, also to an instance that is
\* already unhealthy.
C11_DecayEveryStaleTick == [][DecayEffect(FALSE)]_vars

\* C11 witness: after a tick an unhealthy instance holds 0.8 * 0.8 of its
\* allocation: two ticks in a row reduced it
C11_Witness ==
    /\ resp.op = "health"
    /\ \E p \in PositionSet :
          /\ p \notin resp.probes
          /\ services[p[1]][p[2]].status = "unhealthy"
          /\ services[p[1]][p[2]].power_level =
                 RatMul(InstancePower(services, p[1]), 16, 25)

\* what a tick does to an instance that was unhealthy when the tick started
\* and whose probe answered 200: healthy, lastHeartbeat = the tick's time, and
\* powerLevel = min(100, 1.2 * q), where q is the powerLevel at the start of
\* the tick (fromStart = TRUE) or the powerLevel the tick's own heartbeat
\* check left, 0.8 * the powerLevel at the start (fromStart = FALSE); an
\* instance that is unhealthy when a tick starts is always stale.
RecoveryEffect(fromStart) ==
    IsHealthTick =>
        \A p \in resp'.probes :
            LET old == services[p[1]][p[2]]
                new == services'[p[1]][p[2]]
            IN old.status = "unhealthy" =>
                  /\ StaleAt(p)
                  /\ new.status = "healthy"
                  /\ new.last_heartbeat = now
                  /\ new.power_level =
                        IF fromStart THEN RatMin(RatMul(old.power_level, 6, 5), 100)
                        ELSE RatMin(RatMul(RatMul(old.power_level, 4, 5), 6, 5), 100)

\* C12 (as stated): an instance unhealthy at the start of a tick whose probe
\* returns 200 is healthy after the tick, with lastHeartbeat = the tick's
\* time and powerLevel = min(100, 1.2 * p), p its powerLevel at the start.
C12_RecoveryFromStartPower == [][RecoveryEffect(TRUE)]_vars

\* C12 (amended): an instance unhealthy at the start of a tick whose probe
\* returns 200 is healthy after the tick, with lastHeartbeat = the tick's
\* time and powerLevel = min(100, 1.2 * 0.8 * p), p its powerLevel at the
\* start: the tick's heartbeat check reduces the power before the boost.
C12_RecoveryAfterDecay == [][RecoveryEffect(FALSE)]_vars

\* C12 witness: a recovered instance holds 0.8 * 0.8 * 1.2 of its allocation
\* (reduced by the tick before, reduced and boosted by this one), below the cap
C12_Witness ==
    /\ resp.op = "health"
    /\ \E p \in resp.probes :
          /\ services[p[1]][p[2]].status = "healthy"
          /\ services[p[1]][p[2]].last_heartbeat = now
          /\ services[p[1]][p[2]].power_level =
                 RatMul(InstancePower(services, p[1]), 96, 125)
          /\ RatLT(services[p[1]][p[2]].power_level, 100)

\* every stored instance is healthy or unhealthy
StatusKnown ==
    \A p \in PositionSet : services[p[1]][p[2]].status \in {"healthy", "unhealthy"}

\* a tick probes every instance that was unhealthy when it started, and
\* leaves it unhealthy when the probe does not answer 200
FailedProbeKeepsUnhealthy ==
    IsHealthTick =>
        \A p \in PositionSet :
            services[p[1]][p[2]].status = "unhealthy" =>
                /\ p \in Probed
                /\ p \notin resp'.probes => services'[p[1]][p[2]].status = "unhealthy"

\* C13: the Health Monitor never escalates an instance to dead: a failed or
\* timed-out probe leaves the instance unhealthy, it is probed again on the
\* next tick, and every stored instance is healthy or unhealthy.
C13_NeverDead == [](StatusKnown) /\ [][FailedProbeKeepsUnhealthy]_vars

\* C13 witness: after a tick an instance is unhealthy whose heartbeat was
\* already stale at the tick before: its probe has failed again
C13_Witness ==
    /\ resp.op = "health"
    /\ \E p \in PositionSet :
          /\ p \notin resp.probes
          /\ services[p[1]][p[2]].status = "unhealthy"
          /\ Age(services[p[1]][p[2]]) > HealthyThreshold + HealthCheckInterval

(* --------------------- claims on threats and defense ------------------- *)
\* the threats a step has added to the active-threat list
NewThreats == SubSeq(active_threats', Len(active_threats) + 1, Len(active_threats'))

\* a tick leaves the summary degraded / enhanced when it detected a threat
\* and fully operational / standard when it detected none
StatusAfterTick ==
    IsHealthTick =>
        IF Len(active_threats') > Len(active_threats)
        THEN /\ status'.operational_status = "degraded"
             /\ status'.security_level = "enhanced"
        ELSE /\ status'.operational_status = "fully_operational"
             /\ status'.security_level = "standard"

\* degraded if and only if enhanced
StatusConsistent ==
    status.operational_status = "degraded" <=> status.security_level = "enhanced"

\* C14: after every completed tick operationalStatus = degraded and
\* securityLevel = enhanced if at least one threat was detected during that
\* tick, fully operational and standard otherwise; in every reachable state
\* operationalStatus is degraded if and only if securityLevel is enhanced.
C14_StatusSummary == [](StatusConsistent) /\ [][StatusAfterTick]_vars

\* C14 witness: a tick without a threat has returned the summary to fully
\* operational although threats of earlier ticks are on the list
C14_Witness ==
    /\ resp.op = "health"
    /\ Flagged(resp.threats) = 0
    /\ active_threats # <<>>
    /\ status.operational_status = "fully_operational"
    /\ status.security_level = "standard"

\* what a tick's threat assessment does: high or critical compromises the
\* flagged instance, low or moderate (or no threat) leaves its securityStatus
\* alone; the threats added are those drawn, in iteration order, each with a
\* level of the four and the flagged instance's type as the affected service
ThreatEffect ==
    IsHealthTick =>
        /\ \A p \in PositionSet :
              LET level == resp'.threats[p] IN
              /\ level \in {"high", "critical"} =>
                    services'[p[1]][p[2]].security_status = "compromised"
              /\ level \notin {"high", "critical"} =>
                    services'[p[1]][p[2]].security_status =
                        services[p[1]][p[2]].security_status
        /\ Len(NewThreats) = Flagged(resp'.threats)
        /\ \A i \in 1..Len(NewThreats) :
              /\ NewThreats[i].threat_level \in {"low", "moderate", "high", "critical"}
              /\ \E p \in PositionSet :
                    /\ resp'.threats[p] = NewThreats[i].threat_level
                    /\ NewThreats[i].affected_services = <<p[1]>>

\* C15: a threat of level high or critical sets the flagged instance's
\* securityStatus to compromised, a threat of level low or moderate leaves it
\* unchanged; every reported threat has a level in {low, moderate, high,
\* critical} and names the instance's service type as affected.
C15_ThreatLevels == [][ThreatEffect]_vars

\* C15 witness: a tick has flagged a secure instance with a low or moderate
\* threat after an earlier high or critical threat was reported
C15_Witness ==
    /\ resp.op = "health"
    /\ \E p \in PositionSet :
          /\ resp.threats[p] \in {"low", "moderate"}
          /\ services[p[1]][p[2]].security_status = "secure"
    /\ \E i \in 1..Len(active_threats) :
          active_threats[i].threat_level \in {"high", "critical"}

\* the active-threat list before a step is a prefix of the list after it
ThreatsKept ==
    /\ Len(active_threats') >= Len(active_threats)
    /\ SubSeq(active_threats', 1, Len(active_threats)) = active_threats

\* C16: the active-threat list only grows: detected threats are appended and
\* no operation removes or reorders an entry.
C16_ThreatsOnlyGrow == [][ThreatsKept]_vars

\* C16 witness: a tick has appended a threat behind an older one
C16_Witness ==
    /\ resp.op = "health"
    /\ Flagged(resp.threats) = 1
    /\ Len(active_threats) = 2
    /\ active_threats[1].timestamp < active_threats[2].timestamp
    /\ active_threats[1].threat_level # active_threats[2].threat_level

\* what a step does to the protocol flags: ActivateProtocol with a known name
\* sets that flag and no other, with an unknown name it answers 404 and
\* changes nothing; no other operation changes a flag; no flag is added or
\* cleared
ProtocolEffect ==
    /\ DOMAIN defense_protocols' = DOMAIN defense_protocols
    /\ \A k \in DOMAIN defense_protocols : defense_protocols[k] => defense_protocols'[k]
    /\ IF resp'.op = "activate"
       THEN IF resp'.protocol \in {"lockdown", "enhanced_monitoring", "auto_recovery"}
            THEN /\ resp'.code = 200
                 /\ defense_protocols'[resp'.protocol]
                 /\ \A k \in DOMAIN defense_protocols \ {resp'.protocol} :
                       defense_protocols'[k] = defense_protocols[k]
            ELSE /\ resp'.code = 404
                 /\ defense_protocols' = defense_protocols
       ELSE defense_protocols' = defense_protocols

\* C17: ActivateProtocol(name) with a known name sets exactly that flag to
\* true and changes no other flag; with an unknown name it fails with 404,
\* adds no flag and changes none; no other operation changes a flag, so a
\* flag that is true stays true.
C17_ActivateProtocol == [][ProtocolEffect]_vars

\* C17 witness: lockdown has been activated while enhanced_monitoring is
\* still off and auto_recovery still on
C17_Witness ==
    /\ resp.op = "activate"
    /\ resp.protocol = "lockdown"
    /\ resp.code = 200
    /\ defense_protocols["lockdown"]
    /\ ~defense_protocols["enhanced_monitoring"]
    /\ defense_protocols["auto_recovery"]

(* ------------------------- claims on the allocator --------------------- *)
\* sum of the powerLevels of a list of instances
RECURSIVE SumPower(_)
SumPower(lst) ==
    IF lst = <<>> THEN Rat(0, 1)
    ELSE RatAdd(Head(lst).power_level, SumPower(Tail(lst)))

\* number of stored instances
StoredCount == Cardinality(PositionSet)

\* C18: immediately after an Allocator tick with N > 0 stored instances,
\* every instance of a critical type has powerLevel (100/N)*1.5, every other
\* instance 100/N, and the recorded allocation of each type is the sum of the
\* powerLevels of its instances.
C18_AllocationAfterTick ==
    (resp.op = "power" /\ StoredCount > 0) =>
        /\ \A p \in PositionSet :
              services[p[1]][p[2]].power_level =
                  IF p[1] \in {"main", "llm", "functional"}
                  THEN Rat(100 * 3, StoredCount * 2)
                  ELSE Rat(100, StoredCount)
        /\ DOMAIN power_distribution = KeySet
        /\ \A t \in KeySet : power_distribution[t] = SumPower(services[t])

\* C18 witness: an allocator tick with instances of a critical and of
\* another type, three or more in all
C18_Witness ==
    /\ resp.op = "power"
    /\ StoredCount >= 3
    /\ services["llm"] # <<>>
    /\ services["db"] # <<>>

\* C19: in every reachable state every stored instance's powerLevel lies in
\* the range [0, 100].
C19_PowerInRange ==
    \A p \in PositionSet :
        /\ ~RatLT(services[p[1]][p[2]].power_level, 0)
        /\ ~RatGT(services[p[1]][p[2]].power_level, 100)

\* C20: the allocator's power assignment is advisory: GetService never
\* answers Unavailable for a type that has an instance which is healthy with
\* a heartbeat younger than 30s.
C20_AllocatorAdvisory ==
    (resp.op = "get" /\ resp.code = 503) =>
        ~\E i \in 1..Len(services[resp.stype]) :
            /\ services[resp.stype][i].status = "healthy"
            /\ Age(services[resp.stype][i]) < HealthyThreshold

\* the total allocated power: the sum of the recorded per-type allocations
TotalAllocated ==
    LET RECURSIVE Sum(_)
        Sum(ts) == IF ts = {} THEN Rat(0, 1)
                   ELSE LET t == CHOOSE x \in ts : TRUE
                        IN RatAdd(power_distribution[t], Sum(ts \ {t}))
    IN Sum(DOMAIN power_distribution)

\* C21: after every Allocator tick powerStatus is critical if the total
\* allocated power is below 30, low if it is at least 30 and below 50, and
\* optimal otherwise; powerStatus never takes any other value.
C21_PowerStatus ==
    /\ status.power_status \in {"critical", "low", "optimal"}
    /\ resp.op = "power" =>
          status.power_status =
              IF RatLT(TotalAllocated, 30) THEN "critical"
              ELSE IF ~RatLT(TotalAllocated, 30) /\ RatLT(TotalAllocated, 50) THEN "low"
              ELSE "optimal"

\* C21 witness: an allocator tick on the empty registry allocates nothing and
\* leaves the power status critical
C21_Witness ==
    /\ resp.op = "power"
    /\ keys = <<>>
    /\ status.power_status = "critical"

(* --------------------- claims on the Service Monitor ------------------- *)
\* the <<server, id>> pairs the instance map holds
StoredPairs ==
    {pr \in Servers \X MonitorIds :
        pr[1] \in DOMAIN instances /\ pr[2] \in DOMAIN instances[pr[1]]}

\* no history holds more than 100 entries
HistoryBounded ==
    \A server \in DOMAIN history : \A id \in DOMAIN history[server] :
        Len(history[server][id]) <= 100

\* what a step does to the histories: a status update of a stored instance
\* that changes its status appends {timestamp, oldStatus, newStatus}, behind
\* the entries 2..100 when the history was full and behind all entries
\* otherwise; no other step adds an entry
HistoryEffect ==
    \A pr \in StoredPairs :
        LET server == pr[1]
            id  == pr[2]
            old == history[server][id]
            new == history'[server][id]
            entry == [timestamp |-> clock,
                      old_status |-> instances[server][id].status,
                      new_status |-> resp'.status]
        IN IF /\ resp'.op = "m_status"
              /\ resp'.server = server /\ resp'.id = id
              /\ instances[server][id].status # resp'.status
           THEN new = (IF Len(old) = 100 THEN SubSeq(old, 2, 100) ELSE old) \o <<entry>>
           ELSE pr \in StoredPairs' => (new = old \/ new = <<>>)

\* C22: a status history never holds more than 100 entries; an entry
\* {timestamp, oldStatus, newStatus} is appended only when a status update
\* changes the status, and when a 101st entry is appended the oldest entry
\* is dropped and the remaining entries keep their order.
C22_HistoryRing == [](HistoryBounded) /\ [][HistoryEffect]_vars

\* C22 witness: a full history whose first entry starts from dead: the entry
\* of the first change (from active) has been dropped
C22_Witness ==
    /\ resp.op = "m_status"
    /\ HistoryLen("llm", 1) = 100
    /\ history["llm"][1][1].old_status = "dead"
    /\ history["llm"][1][1].timestamp < history["llm"][1][100].timestamp

\* the two maps have the same servers and the same ids per server
MapsInSync ==
    /\ DOMAIN instances = DOMAIN history
    /\ \A server \in DOMAIN instances :
          DOMAIN instances[server] = DOMAIN history[server]

\* what a cleanup does: an instance is removed, with its history, exactly
\* when its last ping is older than 30 minutes; the others and their
\* histories are untouched; a bucket whose last instance is removed
\* disappears from both maps
CleanupEffect ==
    resp'.op = "m_cleanup" =>
        /\ \A pr \in StoredPairs :
              IF instances[pr[1]][pr[2]].last_ping < clock - 30
              THEN /\ pr \notin StoredPairs'
                   /\ pr[1] \in DOMAIN history' => pr[2] \notin DOMAIN history'[pr[1]]
              ELSE /\ pr \in StoredPairs'
                   /\ instances'[pr[1]][pr[2]] = instances[pr[1]][pr[2]]
                   /\ history'[pr[1]][pr[2]] = history[pr[1]][pr[2]]
        /\ StoredPairs' \subseteq StoredPairs
        /\ \A server \in DOMAIN instances :
              (\A id \in DOMAIN instances[server] :
                  instances[server][id].last_ping < clock - 30)
              => server \notin DOMAIN instances' /\ server \notin DOMAIN history'

\* C23: cleanup removes exactly the instances whose last ping is older than
\* 30 minutes together with their history, removes a server's bucket when
\* its last instance is removed, and leaves all other instances untouched;
\* the instance map and the history map always have the same servers and
\* the same instance ids per server.
C23_CleanupInSync == [](MapsInSync) /\ [][CleanupEffect]_vars

\* C23 witness: a cleanup has removed the only db instance and db's bucket
\* and has kept an llm instance
C23_Witness ==
    /\ resp.op = "m_cleanup"
    /\ <<"db", 1>> \in resp.cleaned
    /\ "db" \notin DOMAIN instances
    /\ \E id \in MonitorIds : <<"llm", id>> \in StoredPairs

\* how many messages msg the part `by` of the agent has sent
Count(msg, by) == Cardinality({i \in 1..Len(sent) : sent[i] = Message(msg, by)})

\* what the startup registration does: it ends with the service running, it
\* sends exactly one POST /register, and when that POST fails the agent is
\* not registered and none of its loops has been started
StartupEffect ==
    resp'.op = "c_startup" =>
        /\ startup' = "running"
        /\ sent' = Append(sent, Message("register", "startup"))
        /\ resp'.outcome # "ok" =>
              /\ ~registered'
              /\ heartbeat_task'.pc = "none"
              /\ health_check_task'.pc = "none"

\* a POST /register is only sent by the startup or by an explicit
\* registration, and the agent only becomes registered by a 200 answer to one
RegisteredOnlyExplicitly ==
    /\ (Len(sent') > Len(sent) /\ sent'[Len(sent')].msg = "register")
          => resp'.op \in {"c_startup", "c_register"}
    /\ (registered' /\ ~registered)
          => resp'.op \in {"c_startup", "c_register"} /\ resp'.outcome = "ok"

\* C24: the startup of a client agent makes a single registration attempt
\* with no retry; when the attempt fails (another answer than 200, or a
\* network error) no exception reaches the service's startup, the service
\* keeps running, and it stays unregistered until a later explicit
\* registration.
C24_SingleAttempt ==
    /\ [](startup # "crashed" /\ Count("register", "startup") <= 1)
    /\ [][StartupEffect /\ RegisteredOnlyExplicitly]_vars

\* C24 witness: the startup's registration could not reach the registry; the
\* service is running, unregistered, without loops
C24_Witness ==
    /\ resp.op = "c_startup"
    /\ resp.outcome = "unreachable"
    /\ startup = "running"
    /\ ~registered
    /\ heartbeat_task.pc = "none"
    /\ sent = <<Message("register", "startup")>>

\* what the end of a heartbeat POST does, whatever came of it: the loop
\* sleeps one period; and the heartbeat task only ends by the cancel of close
HeartbeatContinues ==
    /\ resp'.op = "c_heartbeat_done"
          => heartbeat_task' = [pc |-> "sleep", delay |-> HeartbeatPeriod]
    /\ (Running(heartbeat_task) /\ ~Running(heartbeat_task'))
          => resp'.op = "c_close_dead_done" /\ heartbeat_task'.pc = "cancelled"

\* the heartbeat loop sleeps 10 seconds before every POST but its first
HeartbeatPeriodFixed ==
    heartbeat_task.pc = "sleep" =>
        heartbeat_task.delay =
            IF Count("heartbeat", "heartbeat") = 0 THEN 0 ELSE HeartbeatPeriod

\* C25: a failed heartbeat POST never ends the client heartbeat loop: after
\* any number of network failures the loop attempts the next heartbeat one
\* period (10 s) later, the period unchanged, until it is cancelled.
C25_HeartbeatContinues == [](HeartbeatPeriodFixed) /\ [][HeartbeatContinues]_vars

\* C25 witness: the second heartbeat could not reach the registry and the
\* loop sleeps 10 seconds before the third
C25_Witness ==
    /\ resp.op = "c_heartbeat_done"
    /\ resp.outcome = "unreachable"
    /\ Count("heartbeat", "heartbeat") = 2
    /\ heartbeat_task = [pc |-> "sleep", delay |-> HeartbeatPeriod]

\* what a successful probe does: the busy flag of the answer is pushed
ProbeSuccessEffect ==
    (resp'.op = "c_health_probed" /\ resp'.outcome = "ok") =>
        /\ client_busy' = resp'.busy
        /\ sent' = Append(sent, Message("active", "health"))

\* what a failed probe does: the dead report is sent
ProbeFailureEffect ==
    (resp'.op = "c_health_probed" /\ resp'.outcome = "error") =>
        /\ health_check_task'.pc = "dead"
        /\ sent' = Append(sent, Message("dead", "health"))

\* C26: when a probe of the service's own /health succeeds the agent pushes
\* the busy flag of the answer; when a probe fails the agent reports dead
\* exactly once and the self-health loop ends, also when the registry cannot
\* be reached for that report.
C26_DeadReportEndsLoop ==
    /\ [](Count("dead", "health") <= 1)
    /\ [][/\ ProbeSuccessEffect
          /\ ProbeFailureEffect
          /\ resp'.op = "c_health_dead_done" => health_check_task'.pc = "done"]_vars

\* how the self-health loop ends: by an answered dead report, or by the
\* cancel of close
HealthLoopEnds ==
    (Running(health_check_task) /\ ~Running(health_check_task')) =>
        \/ /\ resp'.op = "c_health_dead_done"
           /\ resp'.outcome # "unreachable"
           /\ health_check_task'.pc = "done"
        \/ /\ resp'.op = "c_close_cancel_health"
           /\ health_check_task'.pc = "cancelled"

\* what the end of a dead report does: an answer ends the loop, an
\* exception leaves it running
DeadReportEffect ==
    resp'.op = "c_health_dead_done" =>
        health_check_task'.pc = IF resp'.outcome = "unreachable" THEN "sleep" ELSE "done"

\* a probe answered with another status than 200 leaves the loop running
\* and reports the instance active and busy
ProbeRefusedEffect ==
    (resp'.op = "c_health_probed" /\ resp'.outcome = "bad") =>
        /\ health_check_task'.pc = "status"
        /\ client_busy'
        /\ sent' = Append(sent, Message("active", "health"))

\* C27, as the code has it: one probe that raises is enough. It sends the
\* dead report, and the loop ends when that report is answered; a probe
\* answered with another status than 200 leaves the loop running; the loop
\* ends in no other way but the cancel of close.
C27_FirstFailureStops ==
    [][HealthLoopEnds /\ DeadReportEffect /\ ProbeFailureEffect /\ ProbeRefusedEffect]_vars

\* C27: the self-health loop is stopped permanently only by three
\* consecutive self-health failures.
C27_ThreeFailures ==
    [][(Running(health_check_task) /\ health_check_task'.pc = "done")
          => health_check_task'.fails >= 3]_vars

\* C27 witness: the first probe of the loop raised, its dead report was
\* answered and the loop has ended
C27_Witness ==
    /\ resp.op = "c_health_dead_done"
    /\ resp.outcome = "ok"
    /\ health_check_task.pc = "done"
    /\ health_check_task.fails = 1
    /\ Count("dead", "health") = 1
    /\ Count("active", "health") = 0

\* the place in sent of the last dead report of the self-health loop
LastDeadReport ==
    CHOOSE i \in 0..Len(sent) :
        /\ i > 0 => sent[i] = Message("dead", "health")
        /\ \A j \in (i + 1)..Len(sent) : sent[j] # Message("dead", "health")

\* the agent has sent a POST /register after that report
RegisteredAgain == \E k \in (LastDeadReport + 1)..Len(sent) : sent[k].msg = "register"

\* C28: once the self-health loop has reported the instance dead and ended,
\* the agent sends no message that marks the instance active or healthy
\* (no status update, no heartbeat) unless it registers again.
C28_NoResurrection ==
    [][(health_check_task.pc = "done" /\ ~RegisteredAgain /\ Len(sent') > Len(sent))
          => sent'[Len(sent')].msg \notin {"active", "heartbeat"}]_vars

\* C29: close sends exactly one dead report, and that report is the last
\* registry message of the agent.
C29_CloseDeadLast ==
    closing # "idle" =>
        /\ Count("dead", "close") = 1
        /\ sent[Len(sent)] = Message("dead", "close")

\* C30: when a component's close has returned, every loop task the
\* component started is finished or cancelled.
C30_ShutdownCancelsLoops ==
    /\ closing = "closed" =>
          ~Running(heartbeat_task) /\ ~Running(health_check_task)
    /\ orch.closing = "closed" =>
          orch.register = "done" /\ orch.heartbeat.pc \notin {"sleep", "post"}

\* SpecManager: the server manager starts (and restarts) the servers of both
\* service types on its one DNSClient
NextManager ==
    \/ \E name \in Types : start_server(name)
    \/ \E name \in Types, outcome \in Outcomes :
          register_service_answered(name, outcome)
    \/ manager_heartbeat
    \/ \E result \in ProbeResults : manager_health_check(result)

SpecManager == Init /\ [][NextManager]_vars

\* SpecCache: lookups of the llm service through both client caches while
\* the wall clock advances
NextCache ==
    \/ \E outcome \in LookupOutcomes, url \in Urls :
          get_service_url("llm", outcome, url)
    \/ \E outcome \in LookupOutcomes, data \in Urls :
          DNSClient_get_service("llm", outcome, data)
    \/ seconds_pass
    \/ day_passes

SpecCache == Init /\ [][NextCache]_vars

\* what the end of an iteration does, with or without an exception: the
\* loop is asleep and due again one interval later
LoopSleepsAfterTick ==
    /\ resp'.op = "tick_end" =>
          tick'.pc = "idle" /\ healthDue' = now' + HealthCheckInterval
    /\ resp'.op = "power" => powerDue' = now' + PowerInterval

\* C31: an exception raised inside an iteration of health_check_loop or of
\* power_management_loop never ends the loop: it is caught and the next
\* iteration starts one interval later.
C31_LoopsKeepTicking == [](tick.pc # "crashed") /\ [][LoopSleepsAfterTick]_vars

\* C31 witness: an iteration of health_check_loop has ended by the
\* RuntimeError of the dict iterator, and the loop is due again in time
C31_Witness ==
    /\ resp.op = "tick_end"
    /\ resp.error
    /\ tick.pc = "idle"
    /\ healthDue = now + HealthCheckInterval
    /\ healthDue <= MaxTime

\* C33: no step but a Register lowers the last_heartbeat of a stored
\* instance, whatever is processed while the health_check_loop awaits a
\* probe.
C33_HeartbeatMonotone ==
    [][resp'.op # "register" =>
          \A t \in Types : \A i \in 1..Len(services[t]) :
              services'[t][i].last_heartbeat >= services[t][i].last_heartbeat]_vars

\* C34: every iteration of health_check_loop checks every instance stored
\* when it began and ends by writing the status summary, also when Register
\* calls are processed while it awaits a probe; and it writes no recovery to
\* an instance that is no longer stored.
C34_TickExaminesAll ==
    [][/\ resp'.op = "tick_end" =>
             ~resp'.error /\ resp'.started \subseteq resp'.examined
       /\ resp'.op \in {"tick_end", "tick_probe"} => ~resp'.lost]_vars

\* C32: the host a registration names is the host stored on the instance
\* (localhost only when it names none), from which GetService builds its url
\* and the health_check_loop the address it probes.
C32_HostStored ==
    [][resp'.op = "register" =>
          services'[resp'.stype][resp'.idx].host =
              IF resp'.host = "" THEN "localhost" ELSE resp'.host]_vars

\* C35: powerStatus is never low: after any Allocator tick it is critical
\* exactly when no instance is registered and optimal whenever one is, the
\* total allocated power being 0 without instances and from 100 to 150 with
\* them.
C35_NeverLow ==
    /\ status.power_status # "low"
    /\ resp.op = "power" =>
          IF TotalInstances(services) = 0
          THEN /\ status.power_status = "critical"
               /\ TotalAllocated = Rat(0, 1)
          ELSE /\ status.power_status = "optimal"
               /\ ~RatLT(TotalAllocated, TotalPower)
               /\ ~RatGT(TotalAllocated, 150)

\* C35 witness: an allocator tick with the whole fleet registered allocates
\* more than 100 and leaves the power status optimal
C35_Witness ==
    /\ resp.op = "power"
    /\ Len(services["llm"]) = MaxFleet
    /\ Len(services["db"]) = 1
    /\ RatGT(TotalAllocated, TotalPower)
    /\ status.power_status = "optimal"

\* a compromised instance stays compromised in every step but a Register of
\* its own <<type, id>>, which stores a secure instance in its place
CompromisedSticks ==
    \A t \in Types : \A i \in 1..Len(services[t]) :
        services[t][i].security_status = "compromised" =>
            services'[t][i].security_status =
                IF resp'.op = "register" /\ resp'.stype = t /\ resp'.idx = i
                THEN "secure" ELSE "compromised"

\* GetService does not look at security_status: a compromised instance that
\* passes the filter is returned
CompromisedEligible ==
    (/\ resp.op = "get"
     /\ \E i \in 1..Len(services[resp.stype]) :
           /\ services[resp.stype][i].security_status = "compromised"
           /\ IsCandidate(services[resp.stype][i]))
    => resp.code = 200

\* C36: once an instance's security_status is compromised it stays so
\* through every Heartbeat, health tick (a successful recovery included),
\* allocator tick and GetService; only a new Register of the same
\* <<type, id>> sets it back to secure; and a compromised instance can still
\* be returned by GetService.
C36_CompromisedSticks == [](CompromisedEligible) /\ [][CompromisedSticks]_vars

\* C36 witness: GetService returns a compromised instance
C36_Witness ==
    /\ resp.op = "get"
    /\ resp.code = 200
    /\ services[resp.stype][resp.idx].security_status = "compromised"

\* what a Heartbeat that finds its instance does to it, and what an
\* allocator tick does to every instance's power
HeartbeatHeals ==
    /\ (resp'.op = "heartbeat" /\ resp'.code = 200) =>
          LET before == services[resp'.stype][resp'.idx]
              after == services'[resp'.stype][resp'.idx]
          IN /\ after.status = "healthy"
             /\ after.power_level = before.power_level
             /\ after.security_status = before.security_status
    /\ resp'.op = "power" =>
          \A t \in Types : \A i \in 1..Len(services'[t]) :
              services'[t][i].power_level = InstancePower(services, t)

C38_AuditChain ==
    \A pr \in StoredPairs :
        LET h == history[pr[1]][pr[2]] IN
        /\ Len(h) > 0 => h[Len(h)].new_status = instances[pr[1]][pr[2]].status
        /\ \A k \in 2..Len(h) : h[k].old_status = h[k - 1].new_status

\* C39: the manager's DNSClient never has more than one heartbeat task and
\* one self-health task, and each heartbeat round reaches every service the
\* client has successfully registered.
HeartbeatReachesAll ==
    resp'.op = "m_heartbeat" => manager.registered \subseteq resp'.beaten

C39_AllRegisteredBeat ==
    /\ [](manager.heartbeat_tasks <= 1 /\ manager.health_check_tasks <= 1)
    /\ [][HeartbeatReachesAll]_vars

\* C40: a cached lookup that finds an entry answers from the cache exactly
\* when the entry was stored less than 300 seconds ago; at every age of 300
\* seconds or more, a day or longer included, the registry is queried.
CacheServedWhenFresh ==
    resp'.op \in {"get_service_url", "get_service"} /\ resp'.found
        => (resp'.cached <=> resp'.age < CacheTTL)

C40_CacheFreshOnly == [][CacheServedWhenFresh]_vars
====
